---------------------------- MODULE Spec2Model ----------------------------
(***************************************************************************)
(* Marketplace crawlers (Shopee: tools/shopee-crawler/src/crawler.ts,      *)
(* Amazon: tools/amazon-crawler/src/crawler.ts) and the category admin     *)
(* actions (actions/categories.ts, lib/admin.ts).                          *)
(*                                                                         *)
(* A crawler run is one asynchronous function, main: the model follows it  *)
(* from one awaited operation to the next.  pc names the operation that    *)
(* main is suspended on; every action is the completion of that operation  *)
(* (it returns or throws, chosen by the environment) followed by the code  *)
(* main runs up to its next await.  Timer sleeps change no state of a run  *)
(* and are folded into the action that precedes them.                      *)
(*                                                                         *)
(* The building of one product after the other (extractProductDetails and  *)
(* saveToSupabase's productInsert), createSlug and the field lookups of    *)
(* page.evaluate are followed on their own, with their inputs drawn from   *)
(* small sets; there the timer sleeps advance the clock Date.now() reads.  *)
(***************************************************************************)
EXTENDS Integers, Sequences, FiniteSets, TLC

\* ------------------------------------------------------------- bounds
NumCategories == 2       \* category ids are 1..NumCategories
MaxBuilt == 2            \* product pages taken up when products are built
MaxProductsCap == 2      \* MAX_PRODUCTS ranges over 0..MaxProductsCap
NumUrls == 2             \* distinct product URLs the marketplace can expose
MaxAnchors == 2          \* anchors found on one listing page

\* --------------------------------------------------- program constants
NULL == -1                       \* null / absent number
THB_TO_KRW == 40
USD_TO_KRW == 1400

VARIABLES
  crawler,        \* "shopee" | "amazon": which crawler.ts runs
  env,            \* [url, key]: SUPABASE_URL / SUPABASE_SERVICE_ROLE_KEY are set
  mode,           \* CRAWL_MODE, CATEGORY, SEARCH_KEYWORD (Amazon)
  maxProducts,    \* config.maxProducts
  pc,             \* the operation main is suspended on
  phase,          \* "startup" | "discover" | "items": where setupPage/goto was called
  browserOpen,    \* the launched browser is running
  closeCalls,     \* number of browser.close() calls made
  page,           \* the caller's page variable holds a page (not null)
  openPages,      \* pages created by browser.newPage() and not yet closed
  ei,             \* index of the entry point being visited (1-based)
  productUrls,    \* getProductUrls' accumulator, then main's productUrls
  i,              \* index of the item being processed (1-based)
  productData,    \* page.evaluate's result for the current item, or NoData
  successCount,   \* main's successCount
  products,       \* the products table: sequence of rows
  pendingB,       \* browser operations issued and not yet settled
  pendingI,       \* datastore inserts issued and not yet settled
  exitCode,       \* process exit code, NULL while the process runs
  out,            \* console: [warned, summary]
  users,          \* the users table: clerk_id -> role, or NoRow
  categories,     \* the categories table: id -> row (present or not)
  productCategory,\* category_id of the catalog's product (0: null)
  req,            \* the server action in progress, per caller session
  platform,       \* "shopee" | "amazon": whose functions are applied
  ipc,            \* product building: the call extractProductDetails is suspended on
  now,            \* the clock Date.now() reads, in ms since the run began
  fields,         \* what page.evaluate returned for the page (productData)
  product,        \* what extractProductDetails returned, NoProduct for null
  productInsert,  \* saveToSupabase's productInsert, NoInsert before it is built
  fn,             \* a function followed on its own: which one
  arg,            \* its input: a title (createSlug), or what each lookup rule finds
  ret,            \* its result, NotApplied before the call
  built,          \* page by page, the slug of the product built or NoSlug for null
  usersTable,     \* set-admin: the users table, row id -> [clerk_id, role]
  clerkUserId,    \* set-admin: process.argv[2] ("" when missing)
  scriptEnv,      \* set-admin: [url, key]: the two variables are set in .env.local
  spc,            \* set-admin: where the script is
  fetched,        \* set-admin: the user row the select returned, or NoRow
  scriptExit,     \* set-admin: exit code of the run, NULL while it runs
  runNo,          \* set-admin: which run of the script this is (1, 2)
  shist,          \* set-admin observations: the table before the first run,
                  \*   after it, and the exit code of the first run
  images,         \* ImageManager: the images prop (the parent's list)
  newImageUrl,    \* ImageManager: the text in the input
  ihist,          \* ImageManager observation: the last handler called and its index
  event,          \* LuckyDrawSection: the event prop, its end_time or NoEvent
  dateNow,        \* LuckyDrawSection: Date.now(), in ms since the page was loaded
  isExpired,      \* LuckyDrawSection: the isExpired state of the last render
  queued,         \* LuckyDrawSection: the state updates (setTimeLeft,
                  \*   setIsExpired) waiting for the next render, or NoUpdate
  timeLeft,       \* LuckyDrawSection: the timeLeft state of the last render
  animationFrameRef, \* LuckyDrawSection: the frame animationFrameRef.current
                  \*   names is requested and neither run nor cancelled
  lastUpdateRef,  \* LuckyDrawSection: timestamp of the last timer update
  section,        \* LuckyDrawSection: "off" before the first render, then what
                  \*   the last render returned: "shown" | "null"
  effect,         \* LuckyDrawSection: [pending, cleanup]: the effect has to run
                  \*   for the last render; its last run returned a cleanup
  thist,          \* LuckyDrawSection observation: a timer update has run at or
                  \*   after end_time
  hist            \* observations about the run (no effect on the program):
                  \*   launched, discovered: puppeteer.launch / getProductUrls returned
                  \*   exposed, allLoaded: during discovery, the product URLs seen on the
                  \*     pages read so far, and whether every visit so far succeeded
                  \*   moreThanMax: at getProductUrls' return, every visit had succeeded
                  \*     and more than maxProducts distinct URLs had been seen
                  \*   setups, navs, inss: per item, how often the loop took it up,
                  \*     page.goto was called for it, saveToSupabase was called for it
                  \*   ready: per item, how often setupPage returned a page for it
                  \*   unusable: the items whose extracted title or id was empty
                  \*   accepted, rejected: inserts the store accepted / answered with an error
                  \*   products0: the products table before the run

crawlVars == <<crawler, env, mode, maxProducts, pc, phase, browserOpen, closeCalls,
               page, openPages, ei, productUrls, i, productData, successCount,
               products, pendingB, pendingI, exitCode, out, hist>>

adminVars == <<users, categories, productCategory, req>>

itemVars == <<platform, ipc, now, fields, product, productInsert, built>>

fnVars == <<fn, arg, ret>>

scriptVars == <<usersTable, clerkUserId, scriptEnv, spc, fetched, scriptExit, runNo,
                shist>>

imageVars == <<images, newImageUrl, ihist>>

timerVars == <<event, dateNow, isExpired, queued, timeLeft, animationFrameRef,
               lastUpdateRef, section, effect, thist>>

toolVars == <<scriptVars, imageVars, timerVars>>

vars == <<crawlVars, adminVars, itemVars, fnVars, toolVars>>

NoEvent == -1000000

ZeroTimeLeft ==
  [days |-> 0, hours |-> 0, minutes |-> 0, seconds |-> 0, centiseconds |-> 0]

\* the set-admin script is not run
ScriptQuiet ==
  /\ usersTable = <<>>
  /\ clerkUserId = ""
  /\ scriptEnv = [url |-> TRUE, key |-> TRUE]
  /\ spc = "off"
  /\ fetched = "norow"
  /\ scriptExit = NULL
  /\ runNo = 1
  /\ shist = [before |-> <<>>, afterFirst |-> <<>>, firstExit |-> NULL]

\* no ImageManager is mounted
ImagesQuiet ==
  /\ images = <<>>
  /\ newImageUrl = ""
  /\ ihist = [op |-> "none", index |-> 0]

\* no state update waits for a render
NoUpdate == [pending |-> FALSE]

\* no LuckyDrawSection is mounted
TimerQuiet ==
  /\ event = NoEvent
  /\ dateNow = 0
  /\ isExpired = FALSE
  /\ queued = NoUpdate
  /\ timeLeft = ZeroTimeLeft
  /\ animationFrameRef = FALSE
  /\ lastUpdateRef = 0
  /\ section = "off"
  /\ effect = [pending |-> FALSE, cleanup |-> FALSE]
  /\ thist = [updatedAtEnd |-> FALSE]

ToolQuiet == ScriptQuiet /\ ImagesQuiet /\ TimerQuiet

NotApplied == [applied |-> FALSE]

\* no function is followed on its own
FnQuiet ==
  /\ fn = "none"
  /\ arg = <<>>
  /\ ret = NotApplied

\* null results
NoFields == [got |-> FALSE]

NoProduct == [got |-> FALSE]

NoInsert == [got |-> FALSE]

NoSlug == [got |-> FALSE]

\* no product is being built
ItemQuiet ==
  /\ platform = "shopee"
  /\ ipc = "idle"
  /\ now = 0
  /\ fields = NoFields
  /\ product = NoProduct
  /\ productInsert = NoInsert
  /\ built = <<>>

\* ------------------------------------------------------------ helpers
Min(a, b) == IF a < b THEN a ELSE b

Range(s) == {s[k] : k \in DOMAIN s}

SeqsUpTo(S, n) == UNION {[1..k -> S] : k \in 0..n}

NoDup(s) == \A a, b \in DOMAIN s : a # b => s[a] # s[b]

\* s.slice(0, n) for n >= 0
Slice(s, n) == SubSeq(s, 1, Min(n, Len(s)))

\* [...new Set(links)]: first occurrences, in order
RECURSIVE Dedup(_)
Dedup(s) ==
  IF s = <<>> THEN <<>>
  ELSE LET rest == Dedup(SubSeq(s, 1, Len(s) - 1))
           last == s[Len(s)]
       IN IF last \in Range(rest) THEN rest ELSE Append(rest, last)

Urls == 1..NumUrls

\* An anchor of a listing page: a product URL, or 0 for an href that does not
\* match the product-link pattern.
Anchors == 0..NumUrls

PageContents == SeqsUpTo(Anchors, MaxAnchors)

\* ------------------------------------------------------- configuration
CrawlModes == {"bestsellers", "new-releases", "movers-shakers", "search"}

\* CRAWL_MODE, CATEGORY ('all' or one category) and whether SEARCH_KEYWORD is set.
\* The Shopee crawler reads none of them.
ModeConfigs ==
  {m \in [mode : CrawlModes, category : {"all", "electronics"}, keyword : BOOLEAN] :
     /\ m.keyword => m.mode = "search"
     /\ m.mode = "search" => m.category = "all"}

DefaultMode == [mode |-> "bestsellers", category |-> "all", keyword |-> FALSE]

\* initSupabase: throws unless both variables are set
InitSupabaseOk(e) == e.url /\ e.key

\* getUrlsForMode(mode, category): the listing pages of a mode
GetUrlsForMode(m) ==
  IF m.mode = "search"
  THEN IF ~m.keyword THEN <<>> ELSE <<"search">>
  ELSE IF m.category = "all"
       THEN <<"electronics", "beauty", "home-garden">>
       ELSE <<m.category>>

\* the entry points of getProductUrls
UrlsToTry ==
  IF crawler = "shopee"
  THEN <<"electronics", "phone", "fashion", "beauty", "appliances">>
  ELSE GetUrlsForMode(mode)

\* ----------------------------------------------------------- discovery
IsProductLink(a) == a # 0

\* extractLinksFromPage (Shopee): the product links of the page without
\* repetition, or [] when page.evaluate throws
ExtractLinksFromPage(anchors, ok) ==
  IF ok THEN Dedup(SelectSeq(anchors, IsProductLink)) ELSE <<>>

\* extractProductUrls (Amazon): the product links of the page without repetition
ExtractProductUrls(anchors) == Dedup(SelectSeq(anchors, IsProductLink))

\* Shopee: urls.filter(u => !productUrls.includes(u)), then push
PushNewUrls(acc, urls) ==
  LET IsNew(u) == u \notin Range(acc)
  IN acc \o SelectSeq(urls, IsNew)

\* Amazon: productUrls.push(...urls.slice(0, maxProducts - productUrls.length))
PushUpToMax(acc, urls, max) == acc \o Slice(urls, max - Len(acc))

\* (mutant) the accumulated list is returned without the cut
ReturnedUrlsUncut(acc, max) == acc

\* getProductUrls: return productUrls.slice(0, maxProducts)
ReturnedUrls(acc, max) == Slice(acc, max)

\* (mutant) the loop guard without the test of the cap
MoreToVisitIgnoringCap(k, acc, max) == k <= Len(UrlsToTry)

\* the loop guard of getProductUrls: visit the next entry point
MoreToVisit(k, acc, max) == k <= Len(UrlsToTry) /\ ~(Len(acc) >= max)

\* (mutant) the loop stops one item early
MoreItemsSkipsLast(k, list) == k < Len(list)

\* main: for (let i = 0; i < productUrls.length; i++)
MoreItems(k, list) == k <= Len(list)

\* (mutant) the early return on an empty list is missing
ZeroUrlsIgnored(list) == FALSE

\* main: if (productUrls.length === 0)
ZeroUrls(list) == Len(list) = 0

\* ---------------------------------------------------------- extraction
NoData == [got |-> FALSE, title |-> "", id |-> "", price |-> NULL]

\* what page.evaluate returns for a product page: title, external id
\* (itemId / ASIN, '' when the page URL carries none) and price in hundredths
ProductDatas ==
  [got : {TRUE}, title : {"", "T"}, id : {"", "ID"}, price : {NULL, 1999}]

\* (mutant) the id check is left out
IsUsableTitleOnly(pd) == pd.title # ""

\* extractProductDetails: if (!productData.title || !productData.<id>) return null
IsUsable(pd) == pd.title # "" /\ pd.id # ""

\* ------------------------------------------------------------ datastore
InsertOutcomes == {"ok", "error", "throw"}

\* productInsert, as far as the run's bookkeeping reads it
ProductInsert(url, pd) ==
  [title |-> pd.title, source_url |-> url, source_platform |-> crawler]

OldRow == [title |-> "old", source_url |-> 1, source_platform |-> "wadiz"]

\* (mutant) an upsert on source_url: a row of the same URL is overwritten
DbUpsert(table, row, outcome) ==
  IF outcome # "ok" THEN table
  ELSE IF \E k \in DOMAIN table : table[k].source_url = row.source_url
       THEN [k \in DOMAIN table |->
               IF table[k].source_url = row.source_url THEN row ELSE table[k]]
       ELSE Append(table, row)

\* supabase.from('products').insert(row): the store adds the row, or answers
\* with an error, or the client throws; only an accepted insert adds a row
DbInsert(table, row, outcome) ==
  IF outcome = "ok" THEN Append(table, row) ELSE table

\* (mutant) the store's error answer is not looked at
SaveResultIgnoresError(outcome) == outcome # "throw"

\* saveToSupabase's return value
SaveResult(outcome) ==
  IF outcome = "error" THEN FALSE
  ELSE IF outcome = "throw" THEN FALSE
  ELSE TRUE

\* ---------------------------------------------------------- suspension
BrowserOps == {"launch", "newPage", "configure", "goto", "extract", "debug",
               "evaluate", "closePage", "closeEarly", "closeBrowser"}

DatastoreOps == {"insert"}

\* `await op`: main resumes only after op has settled
Await(n) == n - 1

\* calling an asynchronous operation puts it in flight
Issue(n) == n + 1

\* the operation main was suspended on has settled; the one named by pc' is in flight
Suspend ==
  /\ pendingB' = LET settled == IF pc \in BrowserOps THEN Await(pendingB) ELSE pendingB
                 IN IF pc' \in BrowserOps THEN Issue(settled) ELSE settled
  /\ pendingI' = LET settled == IF pc \in DatastoreOps THEN Await(pendingI) ELSE pendingI
                 IN IF pc' \in DatastoreOps THEN Issue(settled) ELSE settled

\* ================================================== category admin actions
\* actions/categories.ts and lib/admin.ts.  A server action is followed from
\* one awaited call to the next; req[s].pc names the call it is suspended on.
Sessions == {"s1"}

NoUser == "none"                 \* auth() gives userId: null
UserIds == {"u1"}
NoRow == "norow"                 \* no users row with that clerk_id
Roles == {"admin", "user", "null"}   \* users.role; "null" is SQL NULL

CatIds == 1..NumCategories
UNDEF == -2                      \* a field the caller did not supply (undefined)
NoParent == 0                    \* parent_id: null

\* slugs and names as the form sends them; " a" is "a" with surrounding whitespace
SlugInputs == {"", "a", " a", "b"}
NameInputs == {"", "n"}

\* String.prototype.trim
Trim(str) == IF str = " a" THEN "a" ELSE str

\* no row with that id; gone: deleteCategory has removed the row (ids are
\* generated by the store and never given twice)
AbsentRow ==
  [present |-> FALSE, gone |-> FALSE, name |-> "", slug |-> "", parent_id |-> NoParent]

GoneRow == [AbsentRow EXCEPT !.gone = TRUE]

Present(ids) == {c \in CatIds : categories[c].present}

\* .single(): the row when exactly one row matches, else data: null (with an error)
Single(rows) == IF Cardinality(rows) = 1 THEN rows ELSE {}

\* (mutant) any non-null role passes
IsAdminAnyRole(userId, res) ==
  /\ userId # NoUser
  /\ res.kind = "row"
  /\ res.role # "null"

\* isAdmin(userId): false for a null user id, a lookup error or no row
\* (error || !data), an exception (catch), and any role other than 'admin'
IsAdmin(userId, res) ==
  IF userId = NoUser THEN FALSE
  ELSE IF res.kind = "throw" THEN FALSE
  ELSE IF res.kind = "error" THEN FALSE
  ELSE res.role = "admin"

\* supabase.from('users').select('role').eq('clerk_id', userId).single()
UsersLookup(userId, fault) ==
  IF fault = "throw" THEN [kind |-> "throw", role |-> "null"]
  ELSE IF fault = "error" \/ userId = NoUser THEN [kind |-> "error", role |-> "null"]
  ELSE IF users[userId] = NoRow THEN [kind |-> "error", role |-> "null"]
  ELSE [kind |-> "row", role |-> users[userId]]

IdleReq ==
  [op |-> "none", pc |-> "idle", caller |-> NoUser, userId |-> NoUser,
   adminStatus |-> FALSE, roleSeen |-> "unseen", id |-> 0, slug |-> "",
   name |-> "", parent_id |-> UNDEF, result |-> "none"]

\* return { success: false, error } / { success: true }; the arguments are
\* not used again
Finish(r, result) ==
  [r EXCEPT !.pc = "done", !.result = result, !.slug = "", !.name = "",
            !.parent_id = UNDEF]

\* the data argument of createCategory and updateCategory.  It is fixed by the
\* caller and independent of the tables, so it is chosen where the action
\* first reads it; name or slug "" also stands for a field left out
DataInputs ==
  [slug : SlugInputs, name : NameInputs, parent_id : CatIds \cup {NoParent, UNDEF}]

WithData(r, d) ==
  [r EXCEPT !.slug = d.slug, !.name = d.name, !.parent_id = d.parent_id]

\* createCategory's insertData
InsertData(r) ==
  [present |-> TRUE, gone |-> FALSE, name |-> Trim(r.name), slug |-> Trim(r.slug),
   parent_id |-> IF r.parent_id = UNDEF THEN NoParent ELSE r.parent_id]

\* (mutant) every field is written, a field left out as empty
ApplyUpdateAllFields(row, r) ==
  [present |-> TRUE, gone |-> FALSE, name |-> Trim(r.name), slug |-> Trim(r.slug),
   parent_id |-> IF r.parent_id = UNDEF THEN NoParent ELSE r.parent_id]

\* updateCategory's updateData applied to a row: only supplied fields change
ApplyUpdate(row, r) ==
  [present |-> TRUE, gone |-> FALSE,
   name |-> IF r.name # "" THEN Trim(r.name) ELSE row.name,
   slug |-> IF r.slug # "" THEN Trim(r.slug) ELSE row.slug,
   parent_id |-> IF r.parent_id # UNDEF THEN r.parent_id ELSE row.parent_id]

\* the id the store gives a new row
FreeIds == {c \in CatIds : ~categories[c].present /\ ~categories[c].gone}

\* the ids a caller can know: those the store has given out
KnownIds == CatIds \ FreeIds

\* the data a caller can send
CallerData == {d \in DataInputs : d.parent_id \in KnownIds \cup {NoParent, UNDEF}}

NewId == CHOOSE c \in FreeIds : \A d \in FreeIds : c <= d

AdminInit ==
  /\ users \in [UserIds -> Roles \cup {NoRow}]
  /\ categories \in {[c \in CatIds |-> AbsentRow],
                     [c \in CatIds |-> IF c = 1
                                       THEN [present |-> TRUE, gone |-> FALSE, name |-> "n",
                                             slug |-> "a", parent_id |-> NoParent]
                                       ELSE AbsentRow]}
  /\ productCategory \in {NoParent, 1}
  /\ req = [s \in Sessions |-> IdleReq]

\* the admin side while a crawler runs: nobody calls a server action
AdminQuiet ==
  /\ users = [u \in UserIds |-> NoRow]
  /\ categories = [c \in CatIds |-> AbsentRow]
  /\ productCategory = NoParent
  /\ req = [s \in Sessions |-> IdleReq]

\* createCategory(data) is called: up to await auth()
CallCreate(s) ==
  /\ req[s].pc = "idle"
  /\ \E caller \in UserIds \cup {NoUser} :
       req' = [req EXCEPT ![s] = [IdleReq EXCEPT !.op = "create", !.pc = "auth",
                                    !.caller = caller]]
  /\ UNCHANGED <<users, categories, productCategory, crawlVars, itemVars, fnVars, toolVars>>

\* updateCategory(id, data) is called
CallUpdate(s) ==
  /\ req[s].pc = "idle"
  /\ \E caller \in UserIds \cup {NoUser}, id \in CatIds :
       req' = [req EXCEPT ![s] = [IdleReq EXCEPT !.op = "update", !.pc = "auth",
                                    !.caller = caller, !.id = id]]
  /\ UNCHANGED <<users, categories, productCategory, crawlVars, itemVars, fnVars, toolVars>>

\* deleteCategory(id) is called
CallDelete(s) ==
  /\ req[s].pc = "idle"
  /\ \E caller \in UserIds \cup {NoUser}, id \in CatIds :
       req' = [req EXCEPT ![s] = [IdleReq EXCEPT !.op = "delete", !.pc = "auth",
                                    !.caller = caller, !.id = id]]
  /\ UNCHANGED <<users, categories, productCategory, crawlVars, itemVars, fnVars, toolVars>>

\* const { userId } = await auth(); if (!userId) return login required
Auth(s) ==
  /\ req[s].pc = "auth"
  /\ LET r == [req[s] EXCEPT !.userId = req[s].caller]
     IN req' = [req EXCEPT ![s] = IF r.userId = NoUser
                                  THEN Finish(r, "login")
                                  ELSE [r EXCEPT !.pc = "isAdmin"]]
  /\ UNCHANGED <<users, categories, productCategory, crawlVars, itemVars, fnVars, toolVars>>

\* const adminStatus = await isAdmin(userId); if (!adminStatus) return admin
\* required; else the first query is sent (createCategory: by data.slug)
CheckAdmin(s) ==
  /\ req[s].pc = "isAdmin"
  /\ \E fault \in {"none", "error", "throw"} :
       LET res == UsersLookup(req[s].userId, fault)
           r == [req[s] EXCEPT !.adminStatus = IsAdmin(req[s].userId, res),
                               !.roleSeen = IF res.kind = "row" THEN res.role
                                            ELSE "unseen"]
       IN IF ~r.adminStatus
          THEN req' = [req EXCEPT ![s] = Finish(r, "notAdmin")]
          ELSE IF r.op = "create"
          THEN \E d \in CallerData :
                 req' = [req EXCEPT ![s] = [WithData(r, d) EXCEPT !.pc = "slugCheck"]]
          ELSE req' = [req EXCEPT ![s] = [r EXCEPT !.pc = "exists"]]
  /\ UNCHANGED <<users, categories, productCategory, crawlVars, itemVars, fnVars, toolVars>>

\* createCategory: the slug lookup settles (data: null on a query error); then
\* the required-field check, and the insert is sent
CreateSlugCheck(s) ==
  /\ req[s].pc = "slugCheck"
  /\ req[s].op = "create"
  /\ \E ok \in BOOLEAN :
       LET r == req[s]
           existing == IF ok THEN Single({c \in Present(CatIds) :
                                            categories[c].slug = r.slug})
                       ELSE {}
       IN req' = [req EXCEPT ![s] =
                    IF existing # {} THEN Finish(r, "slugInUse")
                    ELSE IF r.name = "" \/ r.slug = "" THEN Finish(r, "required")
                    ELSE [r EXCEPT !.pc = "insert"]]
  /\ UNCHANGED <<users, categories, productCategory, crawlVars, itemVars, fnVars, toolVars>>

\* createCategory: the insert settles
CreateInsert(s) ==
  /\ req[s].pc = "insert"
  /\ \E ok \in BOOLEAN :
       IF ok /\ FreeIds # {}
       THEN /\ categories' = [categories EXCEPT ![NewId] = InsertData(req[s])]
            /\ req' = [req EXCEPT ![s] = Finish(req[s], "success")]
       ELSE /\ req' = [req EXCEPT ![s] = Finish(req[s], "storeError")]
            /\ UNCHANGED categories
  /\ UNCHANGED <<users, productCategory, crawlVars, itemVars, fnVars, toolVars>>

\* updateCategory / deleteCategory: the lookup of the category by id settles
Exists(s) ==
  /\ req[s].pc = "exists"
  /\ \E ok \in BOOLEAN :
       LET existing == ok /\ categories[req[s].id].present
       IN IF ~existing
          THEN req' = [req EXCEPT ![s] = Finish(req[s], "notFound")]
          ELSE IF req[s].op = "delete"
          THEN req' = [req EXCEPT ![s] = [req[s] EXCEPT !.pc = "children"]]
          ELSE \E d \in CallerData :
                 LET r == WithData(req[s], d)
                 IN req' = [req EXCEPT ![s] =
                              IF r.slug # "" THEN [r EXCEPT !.pc = "slugCheck"]
                              ELSE IF r.parent_id = r.id THEN Finish(r, "selfParent")
                              ELSE [r EXCEPT !.pc = "update"]]
  /\ UNCHANGED <<users, categories, productCategory, crawlVars, itemVars, fnVars, toolVars>>

\* updateCategory: the lookup of another category with the slug settles; then
\* the self-parent check, and the update is sent
UpdateSlugCheck(s) ==
  /\ req[s].pc = "slugCheck"
  /\ req[s].op = "update"
  /\ \E ok \in BOOLEAN :
       LET r == req[s]
           slugExists == IF ok THEN Single({c \in Present(CatIds) :
                                              categories[c].slug = r.slug /\ c # r.id})
                         ELSE {}
       IN req' = [req EXCEPT ![s] =
                    IF slugExists # {} THEN Finish(r, "slugInUse")
                    ELSE IF r.parent_id = r.id THEN Finish(r, "selfParent")
                    ELSE [r EXCEPT !.pc = "update"]]
  /\ UNCHANGED <<users, categories, productCategory, crawlVars, itemVars, fnVars, toolVars>>

\* updateCategory: the update settles; it changes the row with that id, if any
UpdateWrite(s) ==
  /\ req[s].pc = "update"
  /\ \E ok \in BOOLEAN :
       IF ok
       THEN /\ categories' = IF categories[req[s].id].present
                             THEN [categories EXCEPT
                                     ![req[s].id] = ApplyUpdate(@, req[s])]
                             ELSE categories
            /\ req' = [req EXCEPT ![s] = Finish(req[s], "success")]
       ELSE /\ req' = [req EXCEPT ![s] = Finish(req[s], "storeError")]
            /\ UNCHANGED categories
  /\ UNCHANGED <<users, productCategory, crawlVars, itemVars, fnVars, toolVars>>

\* deleteCategory: the lookup of child categories settles
DeleteChildren(s) ==
  /\ req[s].pc = "children"
  /\ \E ok \in BOOLEAN :
       LET r == req[s]
           children == IF ok THEN {c \in Present(CatIds) : categories[c].parent_id = r.id}
                       ELSE {}
       IN req' = [req EXCEPT ![s] = IF children # {} THEN Finish(r, "hasChildren")
                                    ELSE [r EXCEPT !.pc = "productCount"]]
  /\ UNCHANGED <<users, categories, productCategory, crawlVars, itemVars, fnVars, toolVars>>

\* deleteCategory: the count of products of the category settles; then the
\* delete is sent
DeleteProductCount(s) ==
  /\ req[s].pc = "productCount"
  /\ \E ok \in BOOLEAN :
       LET r == req[s]
           productCount == IF ok /\ productCategory = r.id THEN 1 ELSE 0
       IN req' = [req EXCEPT ![s] = IF productCount > 0 THEN Finish(r, "hasProducts")
                                    ELSE [r EXCEPT !.pc = "delete"]]
  /\ UNCHANGED <<users, categories, productCategory, crawlVars, itemVars, fnVars, toolVars>>

\* deleteCategory: the delete settles
DeleteWrite(s) ==
  /\ req[s].pc = "delete"
  /\ \E ok \in BOOLEAN :
       IF ok
       THEN /\ categories' = [categories EXCEPT
                               ![req[s].id] = IF @.present THEN GoneRow ELSE @]
            /\ req' = [req EXCEPT ![s] = Finish(req[s], "success")]
       ELSE /\ req' = [req EXCEPT ![s] = Finish(req[s], "storeError")]
            /\ UNCHANGED categories
  /\ UNCHANGED <<users, productCategory, crawlVars, itemVars, fnVars, toolVars>>

\* the server action has returned; the session may call again
Return(s) ==
  /\ req[s].pc = "done"
  /\ req' = [req EXCEPT ![s] = IdleReq]
  /\ UNCHANGED <<users, categories, productCategory, crawlVars, itemVars, fnVars, toolVars>>

\* a user logs in for the first time: the users row is created with role NULL
SyncUser(u) ==
  /\ users[u] = NoRow
  /\ users' = [users EXCEPT ![u] = "null"]
  /\ UNCHANGED <<categories, productCategory, req, crawlVars, itemVars, fnVars, toolVars>>

\* scripts/set-admin.ts: the role of an existing user becomes 'admin'
GrantAdmin(u) ==
  /\ users[u] \notin {NoRow, "admin"}
  /\ users' = [users EXCEPT ![u] = "admin"]
  /\ UNCHANGED <<categories, productCategory, req, crawlVars, itemVars, fnVars, toolVars>>

\* the setup guide's revocation: UPDATE users SET role = NULL or 'user'
RevokeAdmin(u) ==
  /\ users[u] = "admin"
  /\ \E role \in {"null", "user"} : users' = [users EXCEPT ![u] = role]
  /\ UNCHANGED <<categories, productCategory, req, crawlVars, itemVars, fnVars, toolVars>>

\* ----------------------------------------------------------------- Init
InitHist ==
  [launched |-> FALSE, discovered |-> FALSE, exposed |-> {}, allLoaded |-> TRUE,
   moreThanMax |-> FALSE, navs |-> <<>>, inss |-> <<>>, setups |-> <<>>,
   ready |-> <<>>, unusable |-> {}, accepted |-> 0, rejected |-> 0,
   products0 |-> <<>>]

CrawlInit ==
  /\ crawler \in {"shopee", "amazon"}
  /\ env \in [url : BOOLEAN, key : BOOLEAN]
  /\ mode \in IF crawler = "amazon" THEN ModeConfigs ELSE {DefaultMode}
  /\ maxProducts \in 0..MaxProductsCap
  /\ pc = "start"
  /\ phase = "startup"
  /\ browserOpen = FALSE
  /\ closeCalls = 0
  /\ page = FALSE
  /\ openPages = 0
  /\ ei = 1
  /\ productUrls = <<>>
  /\ i = 1
  /\ productData = NoData
  /\ successCount = 0
  /\ products = <<OldRow>>
  /\ pendingB = 0
  /\ pendingI = 0
  /\ exitCode = NULL
  /\ out = [warned |-> FALSE, printed |-> FALSE, total |-> 0, ok |-> 0]
  /\ hist = [InitHist EXCEPT !.products0 = products]
  /\ AdminQuiet
  /\ ItemQuiet
  /\ FnQuiet
  /\ ToolQuiet

cfgVars == <<crawler, env, mode, maxProducts>>

\* -------------------------------------------------------------- actions
\* The end of one item of main's loop: the Shopee crawler closes the item's page
\* in its finally block when it holds one, the Amazon crawler keeps its only page.
AfterItem(held) ==
  IF crawler = "shopee" /\ held
  THEN pc' = "closePage" /\ i' = i
  ELSE pc' = "i_head" /\ i' = i + 1

\* The end of one entry point of getProductUrls' loop, likewise.
AfterEntry(held) ==
  IF crawler = "shopee" /\ held
  THEN pc' = "closePage" /\ ei' = ei
  ELSE pc' = "d_head" /\ ei' = ei + 1

\* (mutant) a throw of setupPage leaves every loop and makes main reject
SetupPageAborts ==
  /\ page' = FALSE
  /\ pc' = "settled"
  /\ UNCHANGED <<ei, i, hist>>

\* setupPage threw: main rejects when it was called at startup (Amazon); the
\* entry point or the item is given up when it was called inside a loop (Shopee).
SetupPageThrew ==
  /\ page' = FALSE
  /\ CASE phase = "startup" -> pc' = "settled" /\ ei' = ei /\ i' = i /\ hist' = hist
       [] phase = "discover" -> /\ AfterEntry(FALSE)
                                /\ i' = i
                                /\ hist' = [hist EXCEPT !.allLoaded = FALSE]
       [] phase = "items" -> AfterItem(FALSE) /\ ei' = ei /\ hist' = hist

\* main: const supabase = initSupabase(), then puppeteer.launch is called
InitSupabase ==
  /\ pc = "start"
  /\ pc' = IF InitSupabaseOk(env) THEN "launch" ELSE "settled"
  /\ Suspend
  /\ UNCHANGED <<fnVars, toolVars, itemVars, adminVars, cfgVars, phase, browserOpen, closeCalls, page, openPages, ei,
                 productUrls, i, productData, successCount, products, exitCode,
                 out, hist>>

\* setupBrowser: puppeteer.launch settles
SetupBrowser ==
  /\ pc = "launch"
  /\ \E ok \in BOOLEAN :
       IF ok
       THEN /\ browserOpen' = TRUE
            /\ hist' = [hist EXCEPT !.launched = TRUE]
            /\ IF crawler = "shopee"
               THEN pc' = "d_head" /\ phase' = "discover"
               ELSE pc' = "newPage" /\ phase' = "startup"
       ELSE /\ pc' = "settled"
            /\ UNCHANGED <<browserOpen, hist, phase>>
  /\ Suspend
  /\ UNCHANGED <<fnVars, toolVars, itemVars, adminVars, cfgVars, closeCalls, page, openPages, ei, productUrls, i,
                 productData, successCount, products, exitCode, out>>

\* setupPage: browser.newPage() settles
NewPage ==
  /\ pc = "newPage"
  /\ \E ok \in BOOLEAN :
       IF ok
       THEN /\ openPages' = openPages + 1
            /\ pc' = "configure"
            /\ UNCHANGED <<page, ei, i, hist>>
       ELSE /\ SetupPageThrew
            /\ UNCHANGED openPages
  /\ Suspend
  /\ UNCHANGED <<fnVars, toolVars, itemVars, adminVars, cfgVars, phase, browserOpen, closeCalls, productUrls, productData,
                 successCount, products, exitCode, out>>

\* setupPage: setUserAgent, setViewport, evaluateOnNewDocument (and, for Shopee,
\* setExtraHTTPHeaders) settle; the caller gets the page only if none throws
ConfigurePage ==
  /\ pc = "configure"
  /\ \E ok \in BOOLEAN :
       IF ok
       THEN /\ page' = TRUE
            /\ IF phase = "startup"
               THEN pc' = "d_head" /\ phase' = "discover"
               ELSE pc' = "goto" /\ phase' = phase
            /\ hist' = IF phase = "items" THEN [hist EXCEPT !.ready[i] = @ + 1]
                       ELSE hist
            /\ UNCHANGED <<ei, i>>
       ELSE /\ SetupPageThrew
            /\ UNCHANGED phase
  /\ Suspend
  /\ UNCHANGED <<fnVars, toolVars, itemVars, adminVars, cfgVars, browserOpen, closeCalls, openPages, productUrls,
                 productData, successCount, products, exitCode, out>>

\* getProductUrls: the loop goes on to the next entry point
VisitEntry ==
  /\ pc = "d_head"
  /\ MoreToVisit(ei, productUrls, maxProducts)
  /\ pc' = IF crawler = "shopee" THEN "newPage" ELSE "goto"
  /\ Suspend
  /\ UNCHANGED <<fnVars, toolVars, itemVars, adminVars, cfgVars, phase, browserOpen, closeCalls, page, openPages, ei,
                 productUrls, i, productData, successCount, products, exitCode,
                 out, hist>>

\* getProductUrls returns productUrls.slice(0, maxProducts); main warns and
\* closes the browser when the list is empty, and starts the item loop otherwise
ReturnUrls ==
  /\ pc = "d_head"
  /\ ~MoreToVisit(ei, productUrls, maxProducts)
  /\ productUrls' = ReturnedUrls(productUrls, maxProducts)
  /\ hist' = [hist EXCEPT !.discovered = TRUE,
                          !.moreThanMax = hist.allLoaded /\
                                          Cardinality(hist.exposed) > maxProducts,
                          !.exposed = {},
                          !.allLoaded = TRUE,
                          !.navs = [k \in 1..Len(productUrls') |-> 0],
                          !.inss = [k \in 1..Len(productUrls') |-> 0],
                          !.setups = [k \in 1..Len(productUrls') |-> 0],
                          !.ready = [k \in 1..Len(productUrls') |-> 0]]
  /\ IF ZeroUrls(productUrls')
     THEN /\ out' = [out EXCEPT !.warned = TRUE]
          /\ closeCalls' = closeCalls + 1
          /\ pc' = "closeEarly"
          /\ UNCHANGED phase
     ELSE /\ phase' = "items"
          /\ pc' = "i_head"
          /\ UNCHANGED <<out, closeCalls>>
  /\ i' = 1
  /\ Suspend
  /\ UNCHANGED <<fnVars, toolVars, itemVars, adminVars, cfgVars, browserOpen, page, openPages, ei, productData,
                 successCount, products, exitCode>>

\* page.goto settles: on a listing page (getProductUrls) or on a product page
\* (extractProductDetails, which turns a throw into null)
Goto ==
  /\ pc = "goto"
  /\ \E ok \in BOOLEAN :
       IF phase = "discover"
       THEN /\ IF ok THEN pc' = "extract" /\ ei' = ei ELSE AfterEntry(page)
            /\ hist' = [hist EXCEPT !.allLoaded = @ /\ ok]
            /\ i' = i
       ELSE /\ IF ok THEN pc' = "evaluate" /\ i' = i ELSE AfterItem(page)
            /\ hist' = [hist EXCEPT !.navs[i] = @ + 1]
            /\ ei' = ei
  /\ Suspend
  /\ UNCHANGED <<fnVars, toolVars, itemVars, adminVars, cfgVars, phase, browserOpen, closeCalls, page, openPages,
                 productUrls, productData, successCount, products, exitCode, out>>

\* getProductUrls: the page's links are read (after scrollAndWait, whose errors
\* are ignored) and added to productUrls
ExtractLinks ==
  /\ pc = "extract"
  /\ \E anchors \in PageContents, ok \in BOOLEAN :
       /\ IF crawler = "shopee"
          THEN LET urls == ExtractLinksFromPage(anchors, ok)
               IN /\ productUrls' = PushNewUrls(productUrls, urls)
                  /\ IF productUrls' = productUrls
                     THEN pc' = "debug" /\ ei' = ei
                     ELSE AfterEntry(page)
          ELSE /\ productUrls' = IF ok
                                 THEN PushUpToMax(productUrls, ExtractProductUrls(anchors),
                                                  maxProducts)
                                 ELSE productUrls
               /\ AfterEntry(page)
       /\ hist' = [hist EXCEPT
                     !.allLoaded = @ /\ ok,
                     !.exposed = IF ok THEN @ \cup (Range(anchors) \ {0}) ELSE @]
  /\ Suspend
  /\ UNCHANGED <<fnVars, toolVars, itemVars, adminVars, cfgVars, phase, browserOpen, closeCalls, page, openPages, i,
                 productData, successCount, products, exitCode, out>>

\* getProductUrls (Shopee), no new link found: page.evaluate and page.screenshot
\* for the debug output settle; a throw is caught
DebugInfo ==
  /\ pc = "debug"
  /\ AfterEntry(page)
  /\ Suspend
  /\ UNCHANGED <<fnVars, toolVars, itemVars, adminVars, cfgVars, phase, browserOpen, closeCalls, page, openPages,
                 productUrls, i, productData, successCount, products, exitCode,
                 out, hist>>

\* finally { if (page) await page.close() } (Shopee): the page is gone whether
\* close returns or throws (a throw is ignored)
ClosePage ==
  /\ pc = "closePage"
  /\ page' = FALSE
  /\ openPages' = openPages - 1
  /\ IF phase = "discover"
     THEN AfterEntry(FALSE) /\ i' = i
     ELSE AfterItem(FALSE) /\ ei' = ei
  /\ Suspend
  /\ UNCHANGED <<fnVars, toolVars, itemVars, adminVars, cfgVars, phase, browserOpen, closeCalls, productUrls,
                 productData, successCount, products, exitCode, out, hist>>

\* main: the item loop takes up productUrls[i]
NextItem ==
  /\ pc = "i_head"
  /\ MoreItems(i, productUrls)
  /\ productData' = NoData
  /\ pc' = IF crawler = "shopee" THEN "newPage" ELSE "goto"
  /\ hist' = [hist EXCEPT !.setups[i] = @ + 1]
  /\ Suspend
  /\ UNCHANGED <<fnVars, toolVars, itemVars, adminVars, cfgVars, phase, browserOpen, closeCalls, page, openPages, ei,
                 productUrls, i, successCount, products, exitCode, out>>

\* main: the item loop is over; the summary is printed and finally closes the browser
Summary ==
  /\ pc = "i_head"
  /\ ~MoreItems(i, productUrls)
  /\ out' = [out EXCEPT !.printed = TRUE, !.total = Len(productUrls),
                        !.ok = successCount]
  /\ closeCalls' = closeCalls + 1
  /\ pc' = "closeBrowser"
  /\ Suspend
  /\ UNCHANGED <<fnVars, toolVars, itemVars, adminVars, cfgVars, phase, browserOpen, page, openPages, ei, productUrls, i,
                 productData, successCount, products, exitCode, hist>>

\* extractProductDetails: page.evaluate settles; null on a throw or when the
\* title or the id is missing, else the product is built and saveToSupabase called
EvaluateProduct ==
  /\ pc = "evaluate"
  /\ \E ok \in BOOLEAN, pd \in ProductDatas :
       IF ok
       THEN /\ productData' = pd
            /\ IF IsUsable(pd)
               THEN /\ pc' = "insert"
                    /\ i' = i
                    /\ hist' = [hist EXCEPT !.inss[i] = @ + 1]
               ELSE /\ AfterItem(page)
                    /\ hist' = [hist EXCEPT !.unusable = @ \cup {i}]
       ELSE AfterItem(page) /\ UNCHANGED <<productData, hist>>
  /\ Suspend
  /\ UNCHANGED <<fnVars, toolVars, itemVars, adminVars, cfgVars, phase, browserOpen, closeCalls, page, openPages, ei,
                 productUrls, successCount, products, exitCode, out>>

\* saveToSupabase: the insert settles; main counts the item when it returns true
SaveToSupabase ==
  /\ pc = "insert"
  /\ \E outcome \in InsertOutcomes :
       /\ products' = DbInsert(products, ProductInsert(productUrls[i], productData),
                               outcome)
       /\ successCount' = IF SaveResult(outcome) THEN successCount + 1
                          ELSE successCount
       /\ hist' = [hist EXCEPT
                     !.accepted = IF outcome = "ok" THEN @ + 1 ELSE @,
                     !.rejected = IF outcome = "error" THEN @ + 1 ELSE @]
  /\ AfterItem(page)
  /\ Suspend
  /\ UNCHANGED <<fnVars, toolVars, itemVars, adminVars, cfgVars, phase, browserOpen, closeCalls, page, openPages, ei,
                 productUrls, productData, exitCode, out>>

\* main, no URL found: await browser.close() settles; main returns (or the throw
\* is caught and logged), and finally calls browser.close() again
CloseBrowserEarly ==
  /\ pc = "closeEarly"
  /\ \E ok \in BOOLEAN :
       /\ browserOpen' = IF ok THEN FALSE ELSE browserOpen
       /\ openPages' = IF ok THEN 0 ELSE openPages
  /\ closeCalls' = closeCalls + 1
  /\ pc' = "closeBrowser"
  /\ Suspend
  /\ UNCHANGED <<fnVars, toolVars, itemVars, adminVars, cfgVars, phase, page, ei, productUrls, i, productData,
                 successCount, products, exitCode, out, hist>>

\* main: finally { await browser.close() } settles; main's promise settles
CloseBrowser ==
  /\ pc = "closeBrowser"
  /\ \E ok \in BOOLEAN :
       /\ browserOpen' = IF ok THEN FALSE ELSE browserOpen
       /\ openPages' = IF ok THEN 0 ELSE openPages
  /\ pc' = "settled"
  /\ Suspend
  /\ UNCHANGED <<fnVars, toolVars, itemVars, adminVars, cfgVars, phase, closeCalls, page, ei, productUrls, i, productData,
                 successCount, products, exitCode, out, hist>>

\* main().catch(console.error): a rejection is logged; nothing sets an exit code
\* and the process ends with code 0
ProcessExit ==
  /\ pc = "settled"
  /\ exitCode' = 0
  /\ pc' = "exited"
  /\ Suspend
  /\ UNCHANGED <<fnVars, toolVars, itemVars, adminVars, cfgVars, phase, browserOpen, closeCalls, page, openPages, ei,
                 productUrls, i, productData, successCount, products, out, hist>>

CrawlNext ==
  \/ InitSupabase
  \/ SetupBrowser
  \/ NewPage
  \/ ConfigurePage
  \/ VisitEntry
  \/ ReturnUrls
  \/ Goto
  \/ ExtractLinks
  \/ DebugInfo
  \/ ClosePage
  \/ NextItem
  \/ Summary
  \/ EvaluateProduct
  \/ SaveToSupabase
  \/ CloseBrowserEarly
  \/ CloseBrowser
  \/ ProcessExit

Init == CrawlInit

Next == CrawlNext

Spec == Init /\ [][Next]_vars

\* ------------------------------------------------------------------ claims
Exited == pc = "exited"

ItemIndexes == 1..Len(productUrls)

RowsAdded == SubSeq(products, Len(hist.products0) + 1, Len(products))

\* C1: no record is inserted for an item whose extracted title or external id
\* is empty, whatever its other fields are: saveToSupabase is not called for it
\* and no row without a title reaches the table.
C1_NoInsertWithoutTitleOrId ==
  /\ \A k \in hist.unusable : hist.inss[k] = 0
  /\ pc = "insert" => productData.title # "" /\ productData.id # ""
  /\ \A k \in DOMAIN RowsAdded : RowsAdded[k].title # ""

\* C1 witness: a Shopee item with an empty title and a populated price has been
\* extracted and given up, and a run has ended having inserted nothing for it.
C1_Witness ==
  /\ crawler = "shopee"
  /\ pc = "closePage"
  /\ phase = "items"
  /\ productData.got /\ productData.title = "" /\ productData.price # NULL
  /\ i \in hist.unusable
  /\ hist.inss[i] = 0

\* C2: getProductUrls returns at most max URLs, and exactly max when every
\* visited entry point loaded and more than max distinct URLs were exposed.
C2_DiscoveryCap ==
  hist.discovered =>
    /\ Len(productUrls) <= maxProducts
    /\ hist.moreThanMax => Len(productUrls) = maxProducts

\* C2 witness: discovery has returned exactly max > 0 URLs out of more than max.
C2_Witness ==
  /\ hist.discovered
  /\ hist.moreThanMax
  /\ maxProducts > 0
  /\ Len(productUrls) = maxProducts

\* C3: the list getProductUrls returns never contains the same URL twice.
C3_NoDuplicateUrls == hist.discovered => NoDup(productUrls)

\* C4 as stated: at the end of a run every entry of the discovered list has
\* been navigated exactly once and has had at most one insert.
C4_NavigatedExactlyOnce ==
  (Exited /\ hist.discovered) =>
    \A k \in ItemIndexes : hist.navs[k] = 1 /\ hist.inss[k] <= 1

\* C4 amended: every entry of the discovered list is taken up exactly once and
\* navigated at most once, exactly once whenever a page for it was set up (in
\* the Amazon crawler always); it has at most one insert; no failure on one
\* item stops the later ones.
C4_EachItemOnce ==
  hist.discovered =>
    \A k \in ItemIndexes :
      /\ hist.setups[k] <= 1 /\ hist.navs[k] <= 1 /\ hist.inss[k] <= 1
      /\ k < i => /\ hist.setups[k] = 1
                  /\ hist.navs[k] = (IF crawler = "amazon" THEN 1 ELSE hist.ready[k])
      /\ Exited => k < i

\* C4 witness: a run has ended in which the first of two items failed to
\* navigate or was rejected by the store, and the second was still navigated.
C4_Witness ==
  /\ Exited
  /\ Len(productUrls) = 2
  /\ hist.navs = <<1, 1>>
  /\ hist.rejected >= 1
  /\ hist.inss[2] = 1

\* C5: the summary reports the number of discovered URLs as attempted and the
\* number of inserts the store accepted as succeeded; an insert answered with an
\* error is not counted and the run still reaches its summary.
C5_Tally ==
  /\ successCount = hist.accepted
  /\ out.printed =>
       /\ out.total = Len(productUrls)
       /\ out.ok = hist.accepted
       /\ out.ok <= out.total
  /\ (Exited /\ hist.rejected > 0) => out.printed

\* C5 witness: a run has ended with its summary after the store rejected an insert.
C5_Witness ==
  /\ Exited
  /\ out.printed
  /\ hist.rejected > 0
  /\ out.ok < out.total

\* C6: with the datastore URL or the credential missing the run ends with a
\* non-zero exit code before any browser is launched.
C6_MissingConfigExitsNonZero ==
  (Exited /\ ~(env.url /\ env.key)) =>
    /\ exitCode # 0
    /\ ~hist.launched
    /\ ~hist.discovered
    /\ products = hist.products0

\* C8: a run only appends to the products table: every step leaves the rows
\* that exist in place and adds exactly as many rows as successCount grows.
C8_AppendOnly ==
  [][/\ Len(products') >= Len(products)
     /\ SubSeq(products', 1, Len(products)) = products
     /\ Len(products') - Len(products) = successCount' - successCount]_vars

\* C8 witness: a run has ended having added a row for the URL of the row that
\* was in the table before.
C8_Witness ==
  /\ Exited
  /\ successCount >= 1
  /\ Len(products) = Len(hist.products0) + successCount
  /\ \E k \in DOMAIN RowsAdded : RowsAdded[k].source_url = OldRow.source_url

\* C9: when discovery returns no URL, main warns and ends without entering the
\* item loop, without an insert and without a summary, and the exit code is 0.
C9_ZeroUrlsEndsRun ==
  (hist.discovered /\ Len(productUrls) = 0) =>
    /\ out.warned
    /\ ~out.printed
    /\ phase # "items"
    /\ pc \in {"closeEarly", "closeBrowser", "settled", "exited"}
    /\ products = hist.products0
    /\ successCount = 0
    /\ Exited => exitCode = 0

\* C9 witness: a run that found no URL has exited.
C9_Witness ==
  /\ Exited
  /\ hist.discovered
  /\ Len(productUrls) = 0
  /\ out.warned
  /\ exitCode = 0

\* C10: at most one browser operation and at most one insert is pending at any
\* time, and the Shopee crawler never has more than one page open.
C10_OneAtATime ==
  /\ pendingB <= 1
  /\ pendingI <= 1
  /\ crawler = "shopee" => openPages <= 1

\* no crawler runs while the admin actions are followed
CrawlQuiet ==
  /\ crawler = "shopee"
  /\ env = [url |-> TRUE, key |-> TRUE]
  /\ mode = DefaultMode
  /\ maxProducts = 0
  /\ pc = "start"
  /\ phase = "startup"
  /\ browserOpen = FALSE
  /\ closeCalls = 0
  /\ page = FALSE
  /\ openPages = 0
  /\ ei = 1
  /\ productUrls = <<>>
  /\ i = 1
  /\ productData = NoData
  /\ successCount = 0
  /\ products = <<OldRow>>
  /\ pendingB = 0
  /\ pendingI = 0
  /\ exitCode = NULL
  /\ out = [warned |-> FALSE, printed |-> FALSE, total |-> 0, ok |-> 0]
  /\ hist = [InitHist EXCEPT !.products0 = products]

InitAdmin == AdminInit /\ CrawlQuiet /\ ItemQuiet /\ FnQuiet /\ ToolQuiet

NextAdmin ==
  \/ \E s \in Sessions : CallCreate(s)
  \/ \E s \in Sessions : CallUpdate(s)
  \/ \E s \in Sessions : CallDelete(s)
  \/ \E s \in Sessions : Auth(s)
  \/ \E s \in Sessions : CheckAdmin(s)
  \/ \E s \in Sessions : CreateSlugCheck(s)
  \/ \E s \in Sessions : CreateInsert(s)
  \/ \E s \in Sessions : Exists(s)
  \/ \E s \in Sessions : UpdateSlugCheck(s)
  \/ \E s \in Sessions : UpdateWrite(s)
  \/ \E s \in Sessions : DeleteChildren(s)
  \/ \E s \in Sessions : DeleteProductCount(s)
  \/ \E s \in Sessions : DeleteWrite(s)
  \/ \E s \in Sessions : Return(s)
  \/ \E u \in UserIds : SyncUser(u)
  \/ \E u \in UserIds : GrantAdmin(u)
  \/ \E u \in UserIds : RevokeAdmin(u)

SpecAdmin == InitAdmin /\ [][NextAdmin]_vars

\* C7: createCategory, updateCategory and deleteCategory change the categories
\* table only for a signed-in caller whose users row had role 'admin' when
\* isAdmin read it; without such a reading no action gets past the check.
C7_AdminOnlyWrites ==
  [][/\ categories' # categories =>
          \E s \in Sessions : /\ req[s].userId # NoUser
                              /\ req[s].roleSeen = "admin"
                              /\ req'[s].result = "success"
     /\ \A s \in Sessions :
          req'[s].pc \in {"slugCheck", "insert", "exists", "update", "children",
                          "productCount", "delete"}
            => req'[s].userId # NoUser /\ req'[s].roleSeen = "admin"]_vars

\* C7 witness: a delete went through for a caller who was admin when isAdmin ran
\* and whose role has been revoked since.
C7_Witness ==
  \E s \in Sessions :
    /\ req[s].op = "delete"
    /\ req[s].result = "success"
    /\ req[s].roleSeen = "admin"
    /\ users[req[s].userId] = "user"
    /\ ~categories[req[s].id].present

\* ============================================================ createSlug
\* A text is a sequence of runs [c, n]: n >= 1 characters of the kind c.
\* Kinds: "A" A-Z, "a" a-z, "1" 0-9, "hangul" the Hangul syllables U+AC00-U+D7A3,
\* "thai" the Thai range U+0E01-U+0E59, " " and "\n" two kinds of whitespace,
\* "-" the hyphen, "!" any other character.
CharKinds == {"A", "a", "1", "hangul", "thai", " ", "\n", "-", "!"}

Whitespace == {" ", "\n"}

RunLengths == {1, 45, 101}

MaxRuns == 2

Runs == [c : CharKinds, n : RunLengths]

Texts == UNION {[1..k -> Runs] : k \in 0..MaxRuns}

RECURSIVE TextLen(_)
TextLen(t) == IF t = <<>> THEN 0 ELSE Head(t).n + TextLen(Tail(t))

TextKinds(t) == {t[k].c : k \in DOMAIN t}

\* String.prototype.toLowerCase
ToLowerCase(t) == [k \in DOMAIN t |-> IF t[k].c = "A" THEN [t[k] EXCEPT !.c = "a"] ELSE t[k]]

\* the characters the first replace keeps: a-z, 0-9, Hangul, whitespace and
\* the hyphen, and for Shopee the Thai range
Kept(p) ==
  {"a", "1", "hangul", " ", "\n", "-"} \cup (IF p = "shopee" THEN {"thai"} ELSE {})

\* .replace(/[^...]/g, '')
Strip(p, t) == LET keep(r) == r.c \in Kept(p) IN SelectSeq(t, keep)

\* .replace(/\s+/g, '-'): every maximal stretch of whitespace becomes one hyphen
RECURSIVE Hyphenate(_)
Hyphenate(t) ==
  IF t = <<>> THEN <<>>
  ELSE IF Head(t).c \notin Whitespace THEN <<Head(t)>> \o Hyphenate(Tail(t))
  ELSE IF Len(t) > 1 /\ t[2].c \in Whitespace THEN Hyphenate(Tail(t))
  ELSE <<[c |-> "-", n |-> 1]>> \o Hyphenate(Tail(t))

\* (mutant) nothing is cut off
SubstringWhole(t, k) == t

\* .substring(0, k)
RECURSIVE Substring(_, _)
Substring(t, k) ==
  IF t = <<>> \/ k <= 0 THEN <<>>
  ELSE IF Head(t).n <= k THEN <<Head(t)>> \o Substring(Tail(t), k - Head(t).n)
  ELSE <<[Head(t) EXCEPT !.n = k]>>

\* the length createSlug cuts at
SlugLimit(p) == IF p = "shopee" THEN 80 ELSE 100

\* (mutant) no discriminator is appended
CreateSlugNoStamp(p, title, t) ==
  [base |-> Substring(Hyphenate(Strip(p, ToLowerCase(title))), SlugLimit(p)),
   stamp |-> 0]

\* The slug of a product: createSlug(title) with `-${Date.now()}` appended
\* (inside createSlug for Shopee, by extractProductDetails for Amazon), kept as
\* the part before the discriminator and the clock reading t
CreateSlug(p, title, t) ==
  [base |-> Substring(Hyphenate(Strip(p, ToLowerCase(title))), SlugLimit(p)),
   stamp |-> t]

\* ===================================================== building products
\* extractProductDetails and saveToSupabase's productInsert, for one product
\* page after the other.  Prices are in hundredths of the source currency,
\* ratings in tenths of a star.

\* JavaScript truthiness of a number or null
Truthy(x) == x # NULL /\ x # 0

\* x || d
OrElse(x, d) == IF Truthy(x) THEN x ELSE d

\* Math.round(num / den) for num >= 0: the nearest integer, halves upwards
Round(num, den) == (2 * num + den) \div (2 * den)

\* THB_TO_KRW / USD_TO_KRW
Rate(p) == IF p = "shopee" THEN THB_TO_KRW ELSE USD_TO_KRW

\* priceKrw: productData.price ? Math.round(productData.price * rate) : null
PriceKrw(p, price) == IF Truthy(price) THEN Round(price * Rate(p), 100) ELSE NULL

\* (mutant) one of the two conditions is enough
IsFeaturedEither(rating, volume) == rating >= 45 \/ volume >= 1000

\* is_featured: product.rating >= 4.5 && product.<volume> >= 1000
IsFeatured(rating, volume) == rating >= 45 /\ volume >= 1000

\* sample titles and their characters: "Tea Set" and "tea set!" differ only in
\* case and in a character createSlug strips
SampleTitles == {"", "Tea Set", "tea set!"}

TitleText(title) ==
  CASE title = "" -> <<>>
    [] title = "Tea Set" ->
         <<[c |-> "A", n |-> 1], [c |-> "a", n |-> 2], [c |-> " ", n |-> 1],
           [c |-> "A", n |-> 1], [c |-> "a", n |-> 2]>>
    [] title = "tea set!" ->
         <<[c |-> "a", n |-> 1], [c |-> "a", n |-> 2], [c |-> " ", n |-> 1],
           [c |-> "a", n |-> 1], [c |-> "a", n |-> 2], [c |-> "!", n |-> 1]>>

\* what page.evaluate can return for a product page
Prices == {NULL, 0, 1999, 10000}

Ratings == {44, 45, 48}

FieldsOf(p) ==
  IF p = "shopee"
  THEN [got : {TRUE}, title : SampleTitles, id : {"ID"}, price : Prices,
        originalPrice : {NULL}, rating : Ratings, reviewCount : {0, 1234},
        soldCount : {999, 1000}]
  ELSE [got : {TRUE}, title : SampleTitles, id : {"ID"}, price : Prices,
        originalPrice : {NULL, 2500}, rating : Ratings,
        reviewCount : {999, 1000, 1234}, soldCount : {0}]

\* the object extractProductDetails returns; t is what Date.now() reads
BuildProduct(p, f, t) ==
  [got |-> TRUE,
   title |-> f.title,
   slug |-> CreateSlug(p, TitleText(f.title), t),
   price |-> IF p = "shopee" THEN OrElse(f.price, 0) ELSE f.price,
   originalPrice |-> f.originalPrice,
   priceKrw |-> PriceKrw(p, f.price),
   rating |-> f.rating,
   reviewCount |-> f.reviewCount,
   soldCount |-> f.soldCount]

\* saveToSupabase's productInsert
BuildInsert(p, prod) ==
  [got |-> TRUE,
   title |-> prod.title,
   slug |-> prod.slug,
   original_price |-> IF p = "shopee" THEN prod.price
                      ELSE OrElse(prod.originalPrice, prod.price),
   price_krw |-> prod.priceKrw,
   external_rating |-> OrElse(prod.rating, NULL),
   external_review_count |-> OrElse(prod.reviewCount, 0),
   purchase_count |-> IF p = "shopee" THEN OrElse(prod.soldCount, 0) ELSE NULL,
   is_featured |-> IsFeatured(prod.rating,
                              IF p = "shopee" THEN prod.soldCount ELSE prod.reviewCount),
   is_active |-> TRUE]

\* the clock after d more milliseconds
Elapse(t, d) == t + d

\* the loop's next product page, if any
NextPage(done) == IF Len(done) < MaxBuilt THEN "goto" ELSE "done"

InitBuild ==
  /\ platform \in {"shopee", "amazon"}
  /\ ipc = "goto"
  /\ now = 0
  /\ fields = NoFields
  /\ product = NoProduct
  /\ productInsert = NoInsert
  /\ built = <<>>
  /\ CrawlQuiet
  /\ AdminQuiet
  /\ FnQuiet
  /\ ToolQuiet

\* extractProductDetails: page.goto settles, some time after it was called; a
\* throw is caught and gives null
ItemGoto ==
  /\ ipc = "goto"
  /\ \E ok \in BOOLEAN, d \in {0, 1} :
       /\ now' = Elapse(now, d)
       /\ IF ok
          THEN ipc' = "sleep" /\ built' = built
          ELSE built' = Append(built, NoSlug) /\ ipc' = NextPage(built')
  /\ UNCHANGED <<platform, fields, product, productInsert, crawlVars, adminVars, fnVars, toolVars>>

\* extractProductDetails: the timer of setTimeout(r, 3000 + ...) (Shopee) or
\* setTimeout(r, 1500 + ...) (Amazon) fires: at least a millisecond has passed
ItemSleep ==
  /\ ipc = "sleep"
  /\ \E d \in {1, 2} : now' = Elapse(now, d)
  /\ ipc' = "evaluate"
  /\ UNCHANGED <<platform, fields, product, productInsert, built, crawlVars, adminVars, fnVars, toolVars>>

\* extractProductDetails: page.evaluate settles; null on a throw or without a
\* title or id; else the product is built, saveToSupabase builds productInsert
\* and calls insert.  fields, product and productInsert are locals of the calls:
\* they are kept while the insert is pending
ItemEvaluate ==
  /\ ipc = "evaluate"
  /\ \E ok \in BOOLEAN :
       IF ok
       THEN \E f \in FieldsOf(platform) :
              IF IsUsable(f)
              THEN /\ fields' = f
                   /\ product' = BuildProduct(platform, f, now)
                   /\ productInsert' = BuildInsert(platform, product')
                   /\ built' = Append(built, [got |-> TRUE, slug |-> product'.slug])
                   /\ ipc' = "insert"
              ELSE /\ built' = Append(built, NoSlug)
                   /\ ipc' = NextPage(built')
                   /\ UNCHANGED <<fields, product, productInsert>>
       ELSE /\ built' = Append(built, NoSlug)
            /\ ipc' = NextPage(built')
            /\ UNCHANGED <<fields, product, productInsert>>
  /\ UNCHANGED <<platform, now, crawlVars, adminVars, fnVars, toolVars>>

\* saveToSupabase: the insert settles; the loop goes on
ItemInsert ==
  /\ ipc = "insert"
  /\ ipc' = NextPage(built)
  /\ fields' = NoFields
  /\ product' = NoProduct
  /\ productInsert' = NoInsert
  /\ UNCHANGED <<platform, now, built, crawlVars, adminVars, fnVars, toolVars>>

NextBuild ==
  \/ ItemGoto
  \/ ItemSleep
  \/ ItemEvaluate
  \/ ItemInsert

SpecBuild == InitBuild /\ [][NextBuild]_vars

\* C11: the local price of a built product is round(p x rate) for every
\* extracted source price p, p = 0 included (0 converts to 0).
C11_PriceConverted ==
  (product.got /\ fields.price # NULL) =>
    product.priceKrw = Round(fields.price * Rate(platform), 100)

\* C12: when no price was extracted, the built product and its row carry no
\* local price and no source price of 0.
C12_AbsentPriceStaysAbsent ==
  (product.got /\ fields.price = NULL) =>
    /\ product.priceKrw = NULL
    /\ product.price # 0
    /\ productInsert.price_krw = NULL
    /\ productInsert.original_price # 0

\* C13: any two products built in one run have distinct slugs, also when their
\* titles give the same slug text.
C13_DistinctSlugs ==
  \A j, k \in DOMAIN built :
    (j < k /\ built[j].got /\ built[k].got) => built[j].slug # built[k].slug

\* C13 witness: two products have been built, from "Tea Set" and "tea set!",
\* whose slugs agree before the discriminator.
C13_Witness ==
  /\ Len(built) = 2
  /\ built[1].got
  /\ built[2].got
  /\ built[1].slug.base = built[2].slug.base
  /\ product.got
  /\ product.title = "tea set!"

\* C15: every row built for insertion has is_active = true and
\* is_featured = (rating >= 4.5 and volume >= 1000), the volume being the sold
\* count for Shopee and the review count for Amazon.
C15_FeaturedRule ==
  productInsert.got =>
    /\ productInsert.is_active = TRUE
    /\ productInsert.is_featured =
         (fields.rating >= 45 /\
          (IF platform = "shopee" THEN fields.soldCount ELSE fields.reviewCount) >= 1000)

\* C15 witness: an Amazon row with rating 4.8 and 1234 reviews is featured.
C15_Witness ==
  /\ platform = "amazon"
  /\ productInsert.got
  /\ fields.rating = 48
  /\ fields.reviewCount = 1234
  /\ productInsert.is_featured = TRUE

\* ================================================== field lookups, createSlug
\* The lookups of page.evaluate, field by field.  A field has a list of rules
\* (selectors) in priority order; a finding says what one rule meets in the
\* document: no element, an element with empty text, an element whose text
\* does not match the field's pattern ("junk"), or an element whose text gives
\* the value v.  One element per selector.  Numbers as in the product pages:
\* prices in hundredths, ratings in tenths.
MaxRules == 2

Finding(kind, v) == [kind |-> kind, v |-> v]

\* what a rule of a numeric field can meet
NumericFindings(values) ==
  {Finding("none", NULL), Finding("empty", NULL), Finding("junk", NULL)} \cup
  {Finding("value", v) : v \in values}

\* what a title rule can meet: any non-empty text is a title
TitleFindings ==
  {Finding("none", ""), Finding("empty", ""), Finding("value", "T"),
   Finding("value", "U")}

\* numeric texts a rating element can carry: "0", "4.8", "12.8"
RatingTexts == {0, 48, 128}

PriceTexts == {0, 1999}

CountTexts == {0, 1234}

FieldNames(p) ==
  IF p = "shopee" THEN {"title", "price", "rating", "reviewCount"}
  ELSE {"price", "rating"}

FindingsOf(f) ==
  CASE f = "title" -> TitleFindings
    [] f = "price" -> NumericFindings(PriceTexts)
    [] f = "rating" -> NumericFindings(RatingTexts)
    [] f = "reviewCount" -> NumericFindings(CountTexts)

\* Shopee title: the first selector whose element has non-empty trimmed text
RECURSIVE ShopeeTitle(_)
ShopeeTitle(fs) ==
  IF fs = <<>> THEN ""
  ELSE IF Head(fs).kind = "value" THEN Head(fs).v
  ELSE ShopeeTitle(Tail(fs))

\* Shopee price: selector by selector; a matching text replaces the price when
\* there is none yet (!price) or it is lower; if (price) break
RECURSIVE ShopeePrice(_, _)
ShopeePrice(fs, price) ==
  IF fs = <<>> THEN price
  ELSE LET f == Head(fs)
           next == IF f.kind = "value" /\ (~Truthy(price) \/ f.v < price)
                   THEN f.v ELSE price
       IN IF Truthy(next) THEN next ELSE ShopeePrice(Tail(fs), next)

\* Shopee rating: rating = parseFloat(match); if (rating >= 1 && rating <= 5) break
RECURSIVE ShopeeRating(_, _)
ShopeeRating(fs, rating) ==
  IF fs = <<>> THEN rating
  ELSE LET f == Head(fs)
           next == IF f.kind = "value" THEN f.v ELSE rating
       IN IF f.kind = "value" /\ next >= 10 /\ next <= 50 THEN next
          ELSE ShopeeRating(Tail(fs), next)

\* Shopee review count: reviewCount = Math.round(count); if (reviewCount > 0) break
RECURSIVE ShopeeReviewCount(_, _)
ShopeeReviewCount(fs, count) ==
  IF fs = <<>> THEN count
  ELSE LET f == Head(fs)
           next == IF f.kind = "value" THEN f.v ELSE count
       IN IF f.kind = "value" /\ next > 0 THEN next
          ELSE ShopeeReviewCount(Tail(fs), next)

\* Amazon: querySelector(a) || querySelector(b) || ...: the first selector
\* that finds an element, whatever its text
RECURSIVE FirstElement(_)
FirstElement(fs) ==
  IF fs = <<>> THEN Finding("none", NULL)
  ELSE IF Head(fs).kind # "none" THEN Head(fs)
  ELSE FirstElement(Tail(fs))

\* Amazon price: priceMatch ? parseFloat(...) : null, on the text of priceEl
AmazonPrice(fs) ==
  LET priceEl == FirstElement(fs)
  IN IF priceEl.kind = "value" THEN priceEl.v ELSE NULL

\* Amazon rating: ratingMatch ? parseFloat(ratingMatch[1]) : 0, on the title
\* attribute or the text of ratingEl
AmazonRating(fs) ==
  LET ratingEl == FirstElement(fs)
  IN IF ratingEl.kind = "value" THEN ratingEl.v ELSE 0

\* the value page.evaluate returns for field f
ExtractField(p, f, fs) ==
  CASE p = "shopee" /\ f = "title" -> ShopeeTitle(fs)
    [] p = "shopee" /\ f = "price" -> ShopeePrice(fs, NULL)
    [] p = "shopee" /\ f = "rating" -> ShopeeRating(fs, 0)
    [] p = "shopee" /\ f = "reviewCount" -> ShopeeReviewCount(fs, 0)
    [] p = "amazon" /\ f = "price" -> AmazonPrice(fs)
    [] p = "amazon" /\ f = "rating" -> AmazonRating(fs)

\* ---------------------------------------------------- counts with a suffix
\* The text of a count element: a number (in tenths: 12 is "1.2", 230 is
\* "23"), whitespace or none after it, a magnitude suffix or none ("phan",
\* "muen" and "saen" stand for the Thai words for thousand, ten thousand and
\* hundred thousand), and whether a letter k occurs elsewhere in the text.
Units == {"", "k", "K", "phan", "muen", "saen"}

CountRaws == [tenths : {0, 12, 15, 230}, gap : BOOLEAN, unit : Units, k : BOOLEAN]

ParseNames == {"parseReviewCount", "parseSoldCount"}

\* textContent.toLowerCase().includes('k')
IncludesK(t) == t.unit \in {"k", "K"} \/ t.k

\* sold count: the factor of the captured unit, lower-cased
SoldScale(unit) ==
  CASE unit \in {"k", "K", "phan"} -> 1000
    [] unit = "muen" -> 10000
    [] unit = "saen" -> 100000
    [] OTHER -> 1

\* review count: /([\d,.]+)k?/i, count *= 1000 if the text includes 'k',
\* Math.round(count)
ParseReviewCount(t) == Round(t.tenths * (IF IncludesK(t) THEN 1000 ELSE 1), 10)

\* sold count: /([\d,.]+)\s*(k|...)?/i, the unit's factor, Math.round(count)
ParseSoldCount(t) == Round(t.tenths * SoldScale(t.unit), 10)

\* Remaining times, in milliseconds, around every unit boundary of the countdown
Differences ==
  {b + k : b \in {0, 1000, 60000, 3600000, 86400000, 90061010, 259200000},
           k \in (-20)..20}

\* What calculateTimeLeft reads: the event prop (its end_time in milliseconds,
\* NoEvent for null) and Date.now()
ClockInputs ==
  {[event |-> NoEvent, now |-> 7]} \cup
  {[event |-> t + d, now |-> t] : t \in {0, 7}, d \in Differences}

\* (mutant) an event ending at this very millisecond is not over yet
IsOverStrict(difference) == difference < 0

\* difference <= 0
IsOver(difference) == difference <= 0

\* (mutant) the hours are not reduced modulo a day
CalculateTimeLeftTotalHours(ev, t) ==
  IF ev = NoEvent \/ IsOver(ev - t) THEN ZeroTimeLeft
  ELSE [days |-> (ev - t) \div 86400000,
        hours |-> (ev - t) \div 3600000,
        minutes |-> ((ev - t) % 3600000) \div 60000,
        seconds |-> ((ev - t) % 60000) \div 1000,
        centiseconds |-> ((ev - t) % 1000) \div 10]

\* the value calculateTimeLeft returns for the event ev at Date.now() = t
CalculateTimeLeft(ev, t) ==
  IF ev = NoEvent THEN ZeroTimeLeft
  ELSE LET difference == ev - t
       IN IF IsOver(difference) THEN ZeroTimeLeft
          ELSE [days |-> difference \div (1000 * 60 * 60 * 24),
                hours |-> (difference % (1000 * 60 * 60 * 24)) \div (1000 * 60 * 60),
                minutes |-> (difference % (1000 * 60 * 60)) \div (1000 * 60),
                seconds |-> (difference % (1000 * 60)) \div 1000,
                centiseconds |-> (difference % 1000) \div 10]

\* functions that do not depend on the platform are listed once, with shopee
InitFn ==
  /\ platform \in {"shopee", "amazon"}
  /\ fn \in FieldNames(platform) \cup {"createSlug"} \cup
            (IF platform = "shopee" THEN ParseNames \cup {"calculateTimeLeft"} ELSE {})
  /\ arg \in IF fn = "createSlug" THEN Texts
             ELSE IF fn \in ParseNames THEN CountRaws
             ELSE IF fn = "calculateTimeLeft" THEN ClockInputs
             ELSE [1..MaxRules -> FindingsOf(fn)]
  /\ ret = NotApplied
  /\ ipc = "idle"
  /\ now = 0
  /\ fields = NoFields
  /\ product = NoProduct
  /\ productInsert = NoInsert
  /\ built = <<>>
  /\ CrawlQuiet
  /\ AdminQuiet
  /\ ToolQuiet

\* createSlug(title) is called
ApplyCreateSlug ==
  /\ fn = "createSlug"
  /\ ret = NotApplied
  /\ ret' = [applied |-> TRUE, v |-> CreateSlug(platform, arg, now)]
  /\ UNCHANGED <<fn, arg, itemVars, crawlVars, adminVars, toolVars>>

\* page.evaluate runs the lookup of one field
ApplyExtract ==
  /\ fn \in FieldNames(platform)
  /\ ret = NotApplied
  /\ ret' = [applied |-> TRUE, v |-> ExtractField(platform, fn, arg)]
  /\ UNCHANGED <<fn, arg, itemVars, crawlVars, adminVars, toolVars>>

\* page.evaluate parses the text of a count element
ApplyParse ==
  /\ fn \in ParseNames
  /\ ret = NotApplied
  /\ ret' = [applied |-> TRUE,
             v |-> IF fn = "parseReviewCount" THEN ParseReviewCount(arg)
                   ELSE ParseSoldCount(arg)]
  /\ UNCHANGED <<fn, arg, itemVars, crawlVars, adminVars, toolVars>>

\* calculateTimeLeft() is called
ApplyCalculate ==
  /\ fn = "calculateTimeLeft"
  /\ ret = NotApplied
  /\ ret' = [applied |-> TRUE, v |-> CalculateTimeLeft(arg.event, arg.now)]
  /\ UNCHANGED <<fn, arg, itemVars, crawlVars, adminVars, toolVars>>

NextFn ==
  \/ ApplyCreateSlug
  \/ ApplyExtract
  \/ ApplyParse
  \/ ApplyCalculate

SpecFn == InitFn /\ [][NextFn]_vars

\* C14: the slug of a non-empty title holds only lower-case latin letters,
\* digits, Hangul, for Shopee Thai, and hyphens, no whitespace, and is at most
\* 80 (Shopee) or 100 (Amazon) characters long before the discriminator.
C14_SlugAlphabetAndLength ==
  (fn = "createSlug" /\ ret.applied /\ arg # <<>>) =>
    /\ TextKinds(ret.v.base) \subseteq
         {"a", "1", "hangul", "-"} \cup (IF platform = "shopee" THEN {"thai"} ELSE {})
    /\ TextKinds(ret.v.base) \cap Whitespace = {}
    /\ TextLen(ret.v.base) <= (IF platform = "shopee" THEN 80 ELSE 100)

\* C14 witness: a Shopee title of more than 80 characters with upper-case
\* letters and whitespace has been cut to a slug of exactly 80 characters.
C14_Witness ==
  /\ fn = "createSlug"
  /\ platform = "shopee"
  /\ ret.applied
  /\ "A" \in TextKinds(arg)
  /\ " " \in TextKinds(arg)
  /\ TextLen(arg) > 80
  /\ TextLen(ret.v.base) = 80
  /\ "-" \in TextKinds(ret.v.base)

\* C16: when exactly one rule of a field meets a matching text and it is not
\* the first rule (the others meet no element, an empty text or a text that
\* does not match), the extractor returns that rule's value.
C16_FallbackValue ==
  (fn \in FieldNames(platform) /\ ret.applied) =>
    \A k \in DOMAIN arg :
      (/\ k > 1
       /\ arg[k].kind = "value"
       /\ \A j \in DOMAIN arg : j # k => arg[j].kind # "value")
      => ret.v = arg[k].v

\* C17: the extracted rating lies between 0 and 5, whatever numeric text the
\* rating elements carry.
C17_RatingInRange ==
  (fn = "rating" /\ ret.applied) => (ret.v >= 0 /\ ret.v <= 50)

\* ------------------------------------------------- discovery, entry by entry
\* getProductUrls is running: it was called and has not returned
InDiscovery == phase = "discover" /\ ~hist.discovered

\* the positions inside getProductUrls' loop
DiscoveryPcs == {"d_head", "newPage", "configure", "goto", "extract", "debug",
                 "closePage"}

IsPrefix(s, t) == Len(s) <= Len(t) /\ SubSeq(t, 1, Len(s)) = s

\* C18: while getProductUrls runs, no step (a failed navigation, a failed page
\* setup and a page without new links included) leaves its loop or drops a
\* collected URL: the list only grows at its end, the entry index stays or moves
\* to the next entry, and the function returns only when every entry point has
\* been visited or the cap is reached, with the collected URLs cut to the cap.
C18_FailedEntryDoesNotAbort ==
  [][InDiscovery =>
       IF hist'.discovered
       THEN /\ ei > Len(UrlsToTry) \/ Len(productUrls) >= maxProducts
            /\ productUrls' = Slice(productUrls, maxProducts)
       ELSE /\ phase' = "discover"
            /\ pc' \in DiscoveryPcs
            /\ IsPrefix(productUrls, productUrls')
            /\ ei' \in {ei, ei + 1}]_vars

\* C18 witness: the third entry point is being navigated after an earlier entry
\* point has failed, and a URL collected before is still in the list.
C18_Witness ==
  /\ InDiscovery
  /\ pc = "goto"
  /\ ei = 3
  /\ ~hist.allLoaded
  /\ Len(productUrls) = 1
  /\ maxProducts = 2

\* C19: the entry index starts at the first entry point and moves one entry at a
\* time, and a listing page is navigated only while fewer than maxProducts URLs
\* have been collected.
C19_ListedOrderUntilCap ==
  [][/\ InDiscovery => ei' \in {ei, ei + 1}
     /\ (phase = "startup" /\ phase' = "discover") => ei' = 1
     /\ (phase' = "discover" /\ pc' = "goto") =>
          /\ ei' \in DOMAIN UrlsToTry
          /\ Len(productUrls') < maxProducts]_vars

\* C19 witness: getProductUrls has returned after the first of five entry points
\* because the cap was reached there.
C19_Witness ==
  /\ hist.discovered
  /\ crawler = "shopee"
  /\ ei = 2
  /\ maxProducts >= 1
  /\ Len(productUrls) = maxProducts

\* --------------------------------------------------------------- termination
\* Every awaited browser operation and datastore call settles (returns or
\* throws), and the timer sleeps end: a step that can be taken is taken.
SpecLive == Spec /\ WF_vars(Next)

\* main has ended with the summary or the zero-URL warning printed and
\* browser.close() called
EndedWithSummary ==
  /\ Exited
  /\ out.printed \/ out.warned
  /\ closeCalls >= 1

\* C20: a run whose configuration was accepted and whose browser was launched
\* ends with the final summary or the zero-URL warning printed and the browser
\* closed (read at its weakest: browser.close() has been called).
C20_TerminatesWithSummary == hist.launched ~> EndedWithSummary

\* the same for the runs that entered main's try block
C20_InsideTry == (phase = "discover") ~> EndedWithSummary

\* ------------------------------------------------------------------- counts
\* the factor the magnitude suffix stands for
Magnitude(unit) ==
  CASE unit \in {"k", "K", "phan"} -> 1000
    [] unit = "muen" -> 10000
    [] unit = "saen" -> 100000
    [] OTHER -> 1

\* C21: a parsed review or sold count is the number times the factor of the
\* magnitude suffix that follows it (1 without a suffix), rounded, and is a
\* non-negative integer.
C21_ScaledBySuffixOnly ==
  (fn \in ParseNames /\ ret.applied) =>
    /\ ret.v = Round(arg.tenths * Magnitude(arg.unit), 10)
    /\ ret.v \in Nat

\* the same for sold counts alone
C21_SoldCounts ==
  (fn = "parseSoldCount" /\ ret.applied) =>
    /\ ret.v = Round(arg.tenths * Magnitude(arg.unit), 10)
    /\ ret.v \in Nat

\* ------------------------------------------------------------ browser.close
\* C27: when main has ended after a successful launch and after entering its
\* try block (by the end of the item loop, by the zero-URL return or by a throw
\* inside the block), browser.close() has been called exactly once.
C27_ClosedExactlyOnce ==
  (Exited /\ hist.launched /\ phase # "startup") => closeCalls = 1

\* the same for the runs that found at least one URL
C27_RunsWithUrls == (Exited /\ out.printed) => closeCalls = 1

\* --------------------------------------------------------------- categories
\* the k-th ancestor of category c (NoParent when the chain ends before)
RECURSIVE AncestorAt(_, _)
AncestorAt(c, k) ==
  IF c = NoParent \/ k = 0 THEN c
  ELSE AncestorAt(categories[c].parent_id, k - 1)

\* C23: no two rows of the categories table hold the same slug.
C23_UniqueSlugs ==
  \A c, d \in Present(CatIds) : c # d => categories[c].slug # categories[d].slug

\* C24: no category is its own parent or its own ancestor.
C24_NoCycle ==
  \A c \in Present(CatIds) : \A k \in 1..NumCategories : AncestorAt(c, k) # c

\* C25: no category's parent_id and no product's category_id refers to a
\* category that deleteCategory has removed.
C25_NoReferenceToRemoved ==
  /\ \A c \in Present(CatIds) :
       categories[c].parent_id # NoParent => ~categories[categories[c].parent_id].gone
  /\ productCategory # NoParent => ~categories[productCategory].gone

\* C26: the step by which an updateCategory call returns changes no row when
\* the call fails; when it succeeds it changes no row other than id, and in row
\* id no field that data does not supply.
C26_UpdateFrame ==
  [][\A s \in Sessions :
       (req[s].op = "update" /\ req[s].pc # "done" /\ req'[s].pc = "done") =>
         IF req'[s].result # "success"
         THEN categories' = categories
         ELSE /\ \A c \in CatIds : c # req[s].id => categories'[c] = categories[c]
              /\ LET old == categories[req[s].id]
                     new == categories'[req[s].id]
                 IN /\ new.present = old.present
                    /\ req[s].name = "" => new.name = old.name
                    /\ req[s].slug = "" => new.slug = old.slug
                    /\ req[s].parent_id = UNDEF => new.parent_id = old.parent_id]_vars

\* C26 witness: an update has succeeded that gave the first category a parent
\* and left its name and slug as they were, another category being present.
C26_Witness ==
  \E s \in Sessions :
    /\ req[s].op = "update"
    /\ req[s].result = "success"
    /\ req[s].id = 1
    /\ categories[1].present
    /\ categories[1].name = "n"
    /\ categories[1].slug = "a"
    /\ categories[1].parent_id = 2
    /\ categories[2].present

\* ------------------------------------------------------- scripts/set-admin.ts
RowIds == {"r1", "r2"}

ClerkIds == {"u1", "u2"}

\* process.argv[2]: missing, blank, the clerk_id of a possible row, of no row
ArgInputs == {"", " ", "u1", "ghost"}

UsersTables == [RowIds -> [clerk_id : ClerkIds, role : Roles]]

\* !clerkUserId || clerkUserId.trim() === ''
IsBlank(str) == str \in {"", " "}

\* the rows .eq('clerk_id', clerkUserId) selects
Matching(table, id) == {r \in RowIds : table[r].clerk_id = id}

\* select(...).eq('clerk_id', clerkUserId).single(): the row when exactly one
\* matches and the query succeeds, else an error
SelectUser(table, id, ok) ==
  IF ok /\ Cardinality(Matching(table, id)) = 1
  THEN CHOOSE r \in RowIds : r \in Matching(table, id)
  ELSE NoRow

\* (mutant) the update without its filter
UpdateRoleAll(table, id) == [r \in RowIds |-> [table[r] EXCEPT !.role = "admin"]]

\* update({ role: 'admin' }).eq('clerk_id', clerkUserId)
UpdateRole(table, id) ==
  [r \in RowIds |-> IF table[r].clerk_id = id THEN [table[r] EXCEPT !.role = "admin"]
                    ELSE table[r]]

InitScript ==
  /\ usersTable \in UsersTables
  /\ clerkUserId \in ArgInputs
  /\ scriptEnv \in [url : BOOLEAN, key : BOOLEAN]
  /\ spc = "env"
  /\ fetched = NoRow
  /\ scriptExit = NULL
  /\ runNo = 1
  /\ shist = [before |-> usersTable, afterFirst |-> <<>>, firstExit |-> NULL]
  /\ ImagesQuiet
  /\ TimerQuiet
  /\ CrawlQuiet
  /\ AdminQuiet
  /\ ItemQuiet
  /\ FnQuiet

\* process.exit(code)
ScriptExits(code) ==
  /\ scriptExit' = code
  /\ spc' = "exited"

\* the module body and setAdmin up to its first await: the environment check,
\* the two argument checks, createClient, and the select is sent
CheckArguments ==
  /\ spc = "env"
  /\ IF ~(scriptEnv.url /\ scriptEnv.key) \/ IsBlank(clerkUserId)
     THEN ScriptExits(1)
     ELSE spc' = "select" /\ UNCHANGED scriptExit
  /\ UNCHANGED <<usersTable, clerkUserId, scriptEnv, fetched, runNo, shist, imageVars,
                 timerVars, crawlVars, adminVars, itemVars, fnVars>>

\* the select settles: exit 1 when it threw, failed or found no single row,
\* exit 0 when the user is admin already, else the update is sent
FetchUser ==
  /\ spc = "select"
  /\ \E ok \in BOOLEAN :
       LET user == SelectUser(usersTable, clerkUserId, ok)
       IN /\ fetched' = user
          /\ IF user = NoRow THEN ScriptExits(1)
             ELSE IF usersTable[user].role = "admin" THEN ScriptExits(0)
             ELSE spc' = "update" /\ UNCHANGED scriptExit
  /\ UNCHANGED <<usersTable, clerkUserId, scriptEnv, runNo, shist, imageVars,
                 timerVars, crawlVars, adminVars, itemVars, fnVars>>

\* the update settles: written and reported, refused (updateError or a throw:
\* exit 1), or written with the answer lost (exit 1); without process.exit the
\* script ends with code 0
GrantRole ==
  /\ spc = "update"
  /\ \E outcome \in {"ok", "error", "lost"} :
       /\ usersTable' = IF outcome = "error" THEN usersTable
                        ELSE UpdateRole(usersTable, clerkUserId)
       /\ ScriptExits(IF outcome = "ok" THEN 0 ELSE 1)
  /\ UNCHANGED <<clerkUserId, scriptEnv, fetched, runNo, shist, imageVars,
                 timerVars, crawlVars, adminVars, itemVars, fnVars>>

\* the script is run again with the same argument
RunAgain ==
  /\ spc = "exited"
  /\ runNo = 1
  /\ runNo' = 2
  /\ spc' = "env"
  /\ fetched' = NoRow
  /\ scriptExit' = NULL
  /\ shist' = [shist EXCEPT !.afterFirst = usersTable, !.firstExit = scriptExit]
  /\ UNCHANGED <<usersTable, clerkUserId, scriptEnv, imageVars,
                 timerVars, crawlVars, adminVars, itemVars, fnVars>>

NextScript ==
  \/ CheckArguments
  \/ FetchUser
  \/ GrantRole
  \/ RunAgain

SpecScript == InitScript /\ [][NextScript]_vars

\* the users table when the current run began
RunStart == IF runNo = 1 THEN shist.before ELSE shist.afterFirst

C29_TimeLeftComponents ==
  (fn = "calculateTimeLeft" /\ ret.applied) =>
    LET d == arg.event - arg.now
        r == ret.v
        total == r.days * 86400000 + r.hours * 3600000 + r.minutes * 60000
                   + r.seconds * 1000 + r.centiseconds * 10
    IN IF arg.event = NoEvent \/ d <= 0 THEN r = ZeroTimeLeft
       ELSE /\ r.days >= 0
            /\ r.hours \in 0..23
            /\ r.minutes \in 0..59
            /\ r.seconds \in 0..59
            /\ r.centiseconds \in 0..99
            /\ total <= d
            /\ d < total + 10

\* C29 witness: one day, one hour, one minute, one second and 15 ms remain.
C29_Witness ==
  /\ fn = "calculateTimeLeft"
  /\ ret.applied
  /\ arg.event - arg.now = 90061015
  /\ ret.v = [days |-> 1, hours |-> 1, minutes |-> 1, seconds |-> 1, centiseconds |-> 1]

\* ------------------------------------------------------------- ImageManager
\* A text of the URL input: whitespace around it or not, its scheme prefix
\* ("" for none) and what follows the prefix.
UrlTexts == [padded : BOOLEAN, scheme : {"", "http://", "https://", "ftp://"},
             rest : {"", "a"}]

EmptyText == [padded |-> FALSE, scheme |-> "", rest |-> ""]

\* String.prototype.trim
TrimText(t) == [t EXCEPT !.padded = FALSE]

\* String.prototype.startsWith
StartsWith(t, prefix) == ~t.padded /\ t.scheme = prefix

\* the images the form is opened with
InitialImages ==
  {l \in SeqsUpTo({[padded |-> FALSE, scheme |-> "https://", rest |-> "a"],
                   [padded |-> FALSE, scheme |-> "ftp://", rest |-> "a"]}, 2) :
     \A a, b \in DOMAIN l : a # b => l[a] # l[b]}

\* images.filter((_, i) => i !== index), index counted from 0
WithoutIndex(list, index) ==
  SubSeq(list, 1, index) \o SubSeq(list, index + 2, Len(list))

\* (mutant) the second assignment of the swap is lost
SwapOverwrite(list, a, b) == [list EXCEPT ![a] = list[b]]

\* [x[a], x[b]] = [x[b], x[a]] on a copy, positions counted from 1
Swap(list, a, b) == [list EXCEPT ![a] = list[b], ![b] = list[a]]

\* the indexes of the rendered items
Indexes == 0..(Len(images) - 1)

InitImages ==
  /\ images \in InitialImages
  /\ newImageUrl = EmptyText
  /\ ihist = [op |-> "none", index |-> 0]
  /\ ScriptQuiet
  /\ TimerQuiet
  /\ CrawlQuiet
  /\ AdminQuiet
  /\ ItemQuiet
  /\ FnQuiet

\* the input's onChange: setNewImageUrl(e.target.value)
SetNewImageUrl ==
  /\ \E t \in UrlTexts : newImageUrl' = t
  /\ ihist' = [op |-> "type", index |-> 0]
  /\ UNCHANGED <<images, scriptVars, timerVars, crawlVars, adminVars, itemVars, fnVars>>

\* handleAddImage (the button or the Enter key)
HandleAddImage ==
  /\ LET trimmedUrl == TrimText(newImageUrl)
     IN IF trimmedUrl = EmptyText THEN UNCHANGED <<images, newImageUrl>>
        ELSE IF ~StartsWith(trimmedUrl, "http://") /\ ~StartsWith(trimmedUrl, "https://")
        THEN UNCHANGED <<images, newImageUrl>>
        ELSE IF trimmedUrl \in Range(images) THEN UNCHANGED <<images, newImageUrl>>
        ELSE /\ images' = Append(images, trimmedUrl)
             /\ newImageUrl' = EmptyText
  /\ ihist' = [op |-> "add", index |-> 0]
  /\ UNCHANGED <<scriptVars, timerVars, crawlVars, adminVars, itemVars, fnVars>>

\* handleRemoveImage(index)
HandleRemoveImage ==
  /\ \E index \in Indexes :
       /\ images' = WithoutIndex(images, index)
       /\ ihist' = [op |-> "remove", index |-> index]
  /\ UNCHANGED <<newImageUrl, scriptVars, timerVars, crawlVars, adminVars, itemVars,
                 fnVars>>

\* handleMoveUp(index)
HandleMoveUp ==
  /\ \E index \in Indexes :
       /\ images' = IF index = 0 THEN images ELSE Swap(images, index, index + 1)
       /\ ihist' = [op |-> "moveUp", index |-> index]
  /\ UNCHANGED <<newImageUrl, scriptVars, timerVars, crawlVars, adminVars, itemVars,
                 fnVars>>

\* handleMoveDown(index)
HandleMoveDown ==
  /\ \E index \in Indexes :
       /\ images' = IF index = Len(images) - 1 THEN images
                    ELSE Swap(images, index + 1, index + 2)
       /\ ihist' = [op |-> "moveDown", index |-> index]
  /\ UNCHANGED <<newImageUrl, scriptVars, timerVars, crawlVars, adminVars, itemVars,
                 fnVars>>

NextImages ==
  \/ SetNewImageUrl
  \/ HandleAddImage
  \/ HandleRemoveImage
  \/ HandleMoveUp
  \/ HandleMoveDown

SpecImages == InitImages /\ [][NextImages]_vars

\* C28: every handler keeps the list duplicate-free; an add appends at most one
\* URL, which is trimmed, starts with http:// or https:// and was not in the
\* list; a move keeps the length and the set of URLs and swaps two neighbours or
\* nothing; moving the first item up or the last item down changes nothing;
\* remove(i) deletes the item at index i and nothing else.
C28_ImageListOperations ==
  [][LET op == ihist'.op
         index == ihist'.index
     IN /\ NoDup(images) => NoDup(images')
        /\ op = "add" =>
             \/ images' = images
             \/ \E u \in UrlTexts :
                  /\ images' = Append(images, u)
                  /\ u = TrimText(newImageUrl)
                  /\ ~u.padded
                  /\ u.scheme \in {"http://", "https://"}
                  /\ u \notin Range(images)
        /\ op \in {"moveUp", "moveDown"} =>
             /\ Len(images') = Len(images)
             /\ Range(images') = Range(images)
             /\ \/ images' = images
                \/ \E k \in 1..(Len(images) - 1) :
                     /\ images'[k] = images[k + 1]
                     /\ images'[k + 1] = images[k]
                     /\ \A j \in DOMAIN images : j \notin {k, k + 1} => images'[j] = images[j]
        /\ (op = "moveUp" /\ index = 0) => images' = images
        /\ (op = "moveDown" /\ index = Len(images) - 1) => images' = images
        /\ (op = "moveUp" /\ index > 0) =>
             images'[index] = images[index + 1] /\ images'[index + 1] = images[index]
        /\ (op = "moveDown" /\ index < Len(images) - 1) =>
             images'[index + 1] = images[index + 2] /\ images'[index + 2] = images[index + 1]
        /\ op = "remove" =>
             /\ Len(images') = Len(images) - 1
             /\ \A j \in DOMAIN images' :
                  images'[j] = IF j <= index THEN images[j] ELSE images[j + 1]]_vars

\* the list never holds a URL twice
C28_NoDuplicates == NoDup(images)

\* C28 witness: the middle one of three URLs, one of them added from a padded
\* input, has just been moved down.
C28_Witness ==
  /\ ihist.op = "moveDown"
  /\ ihist.index = 1
  /\ Len(images) = 3
  /\ images[1].scheme = "ftp://"
  /\ images[2].scheme = "http://"
  /\ images[3].scheme = "https://"

\* --------------------------------------------------------- LuckyDrawSection
\* The clock stops here.
MaxClock == 48

\* end_time of the event prop, in ms on the page's clock: long past, reached
\* exactly by a timer update, reached between two updates, far ahead
EndTimes == {-50, 16, 20, 1000}

\* milliseconds between two animation frames, and of a pause without frames
FrameGaps == {4, 16}

\* what the component returns: null without an event or once expired
RenderOf(ev, expired) == IF ev = NoEvent \/ expired THEN "null" ELSE "shown"

InitTimer ==
  /\ event \in EndTimes \cup {NoEvent}
  /\ dateNow = 0
  /\ isExpired = FALSE
  /\ queued = NoUpdate
  /\ timeLeft = ZeroTimeLeft
  /\ animationFrameRef = FALSE
  /\ lastUpdateRef = 0
  /\ section = "off"
  /\ effect = [pending |-> FALSE, cleanup |-> FALSE]
  /\ thist = [updatedAtEnd |-> FALSE]
  /\ ScriptQuiet
  /\ ImagesQuiet
  /\ CrawlQuiet
  /\ AdminQuiet
  /\ ItemQuiet
  /\ FnQuiet

\* the first render: useState(false), the two early returns, the effect scheduled
Mount ==
  /\ section = "off"
  /\ section' = RenderOf(event, isExpired)
  /\ effect' = [pending |-> TRUE, cleanup |-> FALSE]
  /\ UNCHANGED <<event, dateNow, isExpired, queued, timeLeft, animationFrameRef,
                 lastUpdateRef, thist>>
  /\ UNCHANGED <<scriptVars, imageVars, crawlVars, adminVars, itemVars, fnVars>>

\* useEffect: the cleanup of the previous run, then the body
FlushEffects ==
  /\ effect.pending
  /\ IF event = NoEvent \/ isExpired
     THEN /\ animationFrameRef' = IF effect.cleanup THEN FALSE ELSE animationFrameRef
          /\ effect' = [pending |-> FALSE, cleanup |-> FALSE]
     ELSE /\ animationFrameRef' = TRUE
          /\ effect' = [pending |-> FALSE, cleanup |-> TRUE]
  /\ UNCHANGED <<event, dateNow, isExpired, queued, timeLeft, lastUpdateRef, section,
                 thist>>
  /\ UNCHANGED <<scriptVars, imageVars, crawlVars, adminVars, itemVars, fnVars>>

\* the browser runs the requested frame: updateTimer(timestamp)
Frame ==
  /\ animationFrameRef
  /\ \E d \in FrameGaps :
       LET timestamp == dateNow + d
           over == event # NoEvent /\ IsOver(event - timestamp)
       IN /\ timestamp <= MaxClock
          /\ dateNow' = timestamp
          /\ IF timestamp - lastUpdateRef >= 10
             THEN /\ queued' = [pending |-> TRUE,
                                timeLeft |-> CalculateTimeLeft(event, timestamp),
                                isExpired |-> over \/ (queued.pending /\ queued.isExpired)]
                  /\ lastUpdateRef' = timestamp
                  /\ thist' = [updatedAtEnd |->
                                 thist.updatedAtEnd \/ (event # NoEvent /\ event - timestamp <= 0)]
             ELSE UNCHANGED <<queued, lastUpdateRef, thist>>
  /\ animationFrameRef' = TRUE
  /\ UNCHANGED <<event, isExpired, timeLeft, section, effect>>
  /\ UNCHANGED <<scriptVars, imageVars, crawlVars, adminVars, itemVars, fnVars>>

\* React renders with the queued state; the effect is scheduled when one of
\* its dependencies (event, isExpired, calculateTimeLeft) changed
Render ==
  /\ queued.pending
  /\ timeLeft' = queued.timeLeft
  /\ isExpired' = (isExpired \/ queued.isExpired)
  /\ section' = RenderOf(event, isExpired')
  /\ effect' = [effect EXCEPT !.pending = @ \/ (isExpired' # isExpired)]
  /\ queued' = NoUpdate
  /\ UNCHANGED <<event, dateNow, animationFrameRef, lastUpdateRef, thist>>
  /\ UNCHANGED <<scriptVars, imageVars, crawlVars, adminVars, itemVars, fnVars>>

\* time passes and no frame runs (before the effect, after the loop, hidden tab)
Wait ==
  /\ \E d \in FrameGaps :
       /\ dateNow + d <= MaxClock
       /\ dateNow' = dateNow + d
  /\ UNCHANGED <<event, isExpired, queued, timeLeft, animationFrameRef, lastUpdateRef,
                 section, effect, thist>>
  /\ UNCHANGED <<scriptVars, imageVars, crawlVars, adminVars, itemVars, fnVars>>

NextTimer ==
  \/ Mount
  \/ FlushEffects
  \/ Frame
  \/ Render
  \/ Wait

\* React runs a scheduled render and a scheduled effect
SpecTimer ==
  InitTimer /\ [][NextTimer]_vars /\ WF_vars(Render) /\ WF_vars(FlushEffects)

\* the section is on screen only with an event and isExpired false, and a
\* timer update at or after end_time has called setIsExpired(true)
ShownOnlyBeforeExpiry ==
  /\ section = "shown" => (event # NoEvent /\ ~isExpired)
  /\ thist.updatedAtEnd => (isExpired \/ (queued.pending /\ queued.isExpired))

\* once expired: nothing is rendered, and when the effect has run no frame is requested
ExpiredStopsLoop ==
  /\ isExpired => section = "null"
  /\ (isExpired /\ ~effect.pending) => ~animationFrameRef

\* without an event nothing is rendered, no frame is requested, no update runs
NoEventNoLoop ==
  event = NoEvent => (section # "shown" /\ ~animationFrameRef /\ lastUpdateRef = 0
                        /\ ~queued.pending /\ ~isExpired)

\* C30: the section is shown only with an event whose end no timer update has
\* seen: the first timer update at or after end_time sets isExpired (with the
\* render that follows), isExpired never becomes false again, the frame loop
\* is cancelled and the section renders nothing; with no event the section
\* never renders and no frame is ever requested.
C30_ShownUntilExpired ==
  /\ [](ShownOnlyBeforeExpiry /\ ExpiredStopsLoop /\ NoEventNoLoop)
  /\ [][isExpired => isExpired']_vars
  /\ (thist.updatedAtEnd ~> [](isExpired /\ ~animationFrameRef /\ section = "null"))

\* C30 witness: the update at timestamp 16 met end_time 16 exactly; the section
\* has been rendered away and the requested frame cancelled.
C30_Witness ==
  /\ event = 16
  /\ lastUpdateRef = 16
  /\ thist.updatedAtEnd
  /\ isExpired
  /\ ~effect.pending
  /\ ~animationFrameRef
  /\ section = "null"

=============================================================================
